---- MODULE Spec2Model ----
(***************************************************************************)
(* Contextboard: real-time board synchronisation.                          *)
(*                                                                         *)
(*   - the room broker of the API server (rooms, presence, relay,          *)
(*     connect-time authorisation), specification SpecBroker;              *)
(*   - the realtime sync client of the web editor (throttled outbound      *)
(*     board_update, echo suppression, one-shot suppression flag),         *)
(*     specification SpecClient.                                           *)
(***************************************************************************)
EXTENDS Integers, Sequences, FiniteSets, TLC

\* ------------------------------------------------------------------------
\* Universe of the broker model
\* ------------------------------------------------------------------------
Conns == {"c1", "c2", "c3"}
BoardIds == {"b1", "b2"}
Undef == "undef"

\* ------------------------------------------------------------------------
\* Persistent store (prisma): owners and collaborators of the boards
\* ------------------------------------------------------------------------
Users == {"u1", "u2", "u3"}

Email == [u \in Users |-> IF u = "u3" THEN "" ELSE u]

OwnerId == [b \in BoardIds |-> IF b = "b1" THEN "u1" ELSE "u2"]

\* BoardCollaborator rows: role is "editor" or "viewer"
Collaborators ==
  { [boardId |-> "b1", userId |-> "u2", role |-> "editor"],
    [boardId |-> "b1", userId |-> "u3", role |-> "viewer"],
    [boardId |-> "b2", userId |-> "u1", role |-> "viewer"] }

\* credentials a connection request can carry
Tokens == {"", "bad", "expired", "tok_u1", "tok_u2", "tok_u3"}

\* board ids a connection request can carry ("" is a missing parameter)
ReqBoards == {"", "b1", "b2"}

\* jwt.verify: the payload of a well-signed unexpired token, else it throws
jwtVerify(token) ==
  IF token \in {"tok_u1", "tok_u2", "tok_u3"}
    THEN [ok |-> TRUE,
          sub |-> CHOOSE u \in Users : token = "tok_" \o u,
          email |-> Email[CHOOSE u \in Users : token = "tok_" \o u]]
    ELSE [ok |-> FALSE, sub |-> Undef, email |-> Undef]

isEditorLax(role) == role \in {"owner", "editor", "viewer"}

isEditor(role) == role = "owner" \/ role = "editor"

\* prisma.board.findFirst: the board when the user owns it or collaborates
getBoardForUser(boardId, userId) ==
  IF boardId \in BoardIds
     /\ (OwnerId[boardId] = userId
         \/ \E r \in Collaborators : r.boardId = boardId /\ r.userId = userId)
    THEN [found |-> TRUE, ownerId |-> OwnerId[boardId],
          collaborators |-> {r \in Collaborators :
                               r.boardId = boardId /\ r.userId = userId}]
    ELSE [found |-> FALSE, ownerId |-> Undef, collaborators |-> {}]

getAccessRole(board, userId) ==
  IF ~board.found THEN "none"
  ELSE IF board.ownerId = userId THEN "owner"
  ELSE IF board.collaborators = {} THEN "viewer"
  ELSE (CHOOSE r \in board.collaborators : TRUE).role

\* ------------------------------------------------------------------------
\* Frames a client can put on the socket
\* ------------------------------------------------------------------------
BoardUpdateFrames ==
  { [kind |-> "object", type |-> "board_update", boardId |-> b,
     data |-> "d1", sender |-> "s1", cursor |-> Undef, label |-> Undef]
    : b \in BoardIds }

PresenceFrames ==
  { [kind |-> "object", type |-> "presence", boardId |-> "b1",
     data |-> Undef, sender |-> "s1", cursor |-> "p1", label |-> "Guest"] }

OtherFrames ==
  { [kind |-> "garbage", type |-> Undef, boardId |-> Undef,
     data |-> Undef, sender |-> Undef, cursor |-> Undef, label |-> Undef],
    [kind |-> "null", type |-> Undef, boardId |-> Undef,
     data |-> Undef, sender |-> Undef, cursor |-> Undef, label |-> Undef],
    [kind |-> "object", type |-> "ping", boardId |-> "b1",
     data |-> Undef, sender |-> "s1", cursor |-> Undef, label |-> Undef],
    [kind |-> "object", type |-> Undef, boardId |-> Undef,
     data |-> Undef, sender |-> Undef, cursor |-> Undef, label |-> Undef] }

Frames == BoardUpdateFrames \cup PresenceFrames \cup OtherFrames

NoFrame == [kind |-> "none", type |-> Undef, boardId |-> Undef,
            data |-> Undef, sender |-> Undef, cursor |-> Undef, label |-> Undef]

\* ------------------------------------------------------------------------
\* Broker state
\* ------------------------------------------------------------------------
VARIABLES
  phase,        \* per connection: "new", "authorizing", "joined", "done"
  readyState,   \* per socket: "NONE", "OPEN", "CLOSED"
  closeCode,    \* per socket: code the server closed it with (0: not)
  reqToken,     \* per connection: token query parameter
  reqBoard,     \* per connection: boardId query parameter
  accessRole,   \* socket.accessRole
  rooms,        \* Map boardId -> Set of sockets
  roomPresence, \* Map boardId -> Map connectionId -> label (insertion order)
  sent,         \* per socket: frames the last broker step sent on it
  lastOp        \* the last broker step: handler, socket, inbound frame

brokerVars == <<phase, readyState, closeCode, reqToken, reqBoard, accessRole,
                rooms, roomPresence, sent, lastOp>>


BrokerInit ==
  /\ phase = [c \in Conns |-> "new"]
  /\ readyState = [c \in Conns |-> "NONE"]
  /\ closeCode = [c \in Conns |-> 0]
  /\ reqToken = [c \in Conns |-> ""]
  /\ reqBoard = [c \in Conns |-> ""]
  /\ accessRole = [c \in Conns |-> "none"]
  /\ rooms = << >>
  /\ roomPresence = << >>
  /\ sent = [c \in Conns |-> << >>]
  /\ lastOp = [op |-> "none", socket |-> "none", frame |-> NoFrame,
               after |-> "none"]

\* ========================================================================
\* Realtime sync client (web/src/App.jsx, second App component): state
\* ========================================================================
\* Bounds of the client model, SpecClient: boards, roles and inbound frames,
\* all events at one reading of the clock
RoomMaxEdits == 1  \* changes each client of the room makes
MaxEdits == 1      \* local state changes (pushHistory)
MaxInbound == 1    \* inbound board_update frames
MaxOpens == 1      \* boards opened from the board list
\* Bounds of the client model, SpecThrottle: one board, local changes and
\* the clock
ThrottleMaxEdits == 5
ThrottleMaxTime == 300
\* resolution of the clock (ms)
TickMs == 30
\* Bounds of the client model, SpecHistory: commits, and undo / redo clicks
HistMaxCommits == 2
HistMaxUndos == 1
\* Bounds of the client model, SpecHistoryCap: enough commits to fill a stack
CapMaxCommits == 21
CapMaxUndos == 1

\* Bounds of the client model, SpecSync: local changes, inbound frames and
\* the clock, on one open board
SyncMaxEdits == 2
SyncMaxInbound == 1
SyncMaxTime == 180

\* Bounds of the client model, SpecSwitch: boards opened one after the other
\* and local changes
SwitchMaxOpens == 2
SwitchMaxEdits == 1

\* Bounds of the canvas model, SpecEditor and SpecSnap: gestures (press ..
\* release), pointer moves of one gesture, toolbar operations, new hexagons
PressMaxGestures == 3  \* presses of a session that builds a selection
DragMaxGestures == 1   \* gestures of a session with drags and undo
ZoomMaxGestures == 1   \* gestures of a session that zooms
ZoomMaxChanges == 2    \* changes of the zoom slider in such a session
RedragMaxGestures == 2 \* gestures of a session that drags again after undo
DragMaxMoves == 2      \* pointer moves per gesture of such a session
DragMaxButtons == 1    \* toolbar buttons pressed in such a session
EdMaxGestures == 1
SnapMaxGestures == 2
EdMaxMoves == 1
EdMaxButtons == 1
EdMaxNew == 1

\* World coordinates are counted in units of 0.16 px, in which the lengths
\* below are integers.
\* hexRadius = 36 px
hexRadius == 225
\* zoom is counted in units of 1 / ZoomUnit, the zoom slider moves in steps of 2
ZoomUnit == 40
zoomMin == 8
zoomMax == 250
\* (zoomMin + zoomMax) / 2 = 3.225
zoomMid == 129
\* snapRatio = 0.94, in percent
snapRatio == 94
\* disconnectVelocityThreshold = 60 px/s
disconnectVelocityThreshold == 60
\* handleCanvasPointerMove: a flick detaches within this time of the press (ms)
FlickWindow == 200
\* handleDuplicateSelected: offset of a clone, 40 px
DuplicateOffset == 250

\* queueBoardBroadcast: minimum interval between two sends (ms)
MinInterval == 90
\* pushHistory / undo / redo: capacity of each stack
HistoryCap == 20

clientId == "self"
Senders == {clientId, "peer"}

\* the access role the API reports for this user on each board
BoardAccessRole == [b \in BoardIds |-> getAccessRole(getBoardForUser(b, "u1"), "u1")]

NoBoard == "null"

\* board data, by identity: the initial { hexagons: [] }, a persisted board,
\* a state received from a peer, the result of the n-th local change
EmptyData == [k |-> "empty", n |-> 0]
StoredData(b) == [k |-> "stored_" \o b, n |-> 0]
RemoteData(n) == [k |-> "remote", n |-> n]
LocalData(n) == [k |-> "local", n |-> n]

JSONstringifyData(d) == [json |-> d]

MediaData(n) == [k |-> "media", n |-> n]

JSONparseData(text) == text.json

NoReader == [active |-> FALSE, data |-> EmptyData]

NoSocket == [board |-> NoBoard, readyState |-> "NULL"]
NoTimer == [active |-> FALSE, due |-> 0, data |-> EmptyData, boardId |-> NoBoard,
            seq |-> 0, cause |-> "init", dataOf |-> NoBoard]

VARIABLES
  cstate,       \* React state of the committed render: boardData,
                \* activeBoardId, activeBoardRole, sharedView (seq, cause:
                \* which setBoardData call produced boardData; dataOf: the
                \* board whose state boardData is)
  queued,       \* React state after the state updates not rendered yet
  effects,      \* passive effects of the committed render not run yet
  wsRef,        \* wsRef.current: the socket of the active board
  wsSendTimer,  \* the trailing send scheduled by window.setTimeout
  lastSendRef,
  suppressBroadcastRef,
  historyRef,
  redoRef,
  inflight,     \* board ids of the getBoard requests not answered yet
  now,          \* Date.now()
  outbox,       \* frames this client has sent, in order
  editCount,
  inboundCount,
  openCount,
  lastFrame,    \* the last frame socket.onmessage handled
  firstEditAt,  \* instant of the first local change
  idleAtFirstEdit, \* the client was connected and idle at that instant
  lastCallAt,   \* instant of the last queueBoardBroadcast call
  budget        \* what the environment of this run may still do

VARIABLES
  presence,     \* React state `presence`: sender -> {cursor, label}
  presenceList, \* React state `presenceList`: the last roster received
  reader,       \* the FileReader of handleMediaChange and the render it closes over
  hist          \* the last commit / undo / redo: what it found and what it left

\* the canvas of the board view
VARIABLES
  hexagons,     \* boardData.hexagons of the render: id, x, y, connections
  selectedIds,
  dragState,
  marqueeStart,
  marqueeRect,
  panState,
  etime,        \* event.timeStamp, counted from the press of the gesture
  newCount,     \* hexagons created so far (crypto.randomUUID)
  gest,         \* the gesture in progress, as the pointer made it
  lastEd,       \* the last canvas event handled, and how many there were
  view          \* React state zoom, pan and lastSelectedId, and the last zoom change

editorVars == <<hexagons, selectedIds, dragState, marqueeStart, marqueeRect,
                panState, etime, newCount, gest, lastEd, view>>

\* the persistent store as the API handlers change it
VARIABLES
  collabs,      \* the BoardCollaborator rows
  row,          \* Board.data of board b1
  creq          \* per comment request: how far its handler has come

\* the clients of the room of board b1, one per connection
VARIABLES
  peers,        \* per client: boardData, suppressBroadcastRef, effect pending
  up,           \* per connection: frames sent by the client, not yet handled
  down          \* per connection: frames sent by the server, not yet handled

roomVars == <<row, creq, peers, up, down>>

sessionVars == <<collabs, roomVars>>

\* the state of the board view outside board synchronisation
uiVars == <<presence, presenceList, reader, editorVars, sessionVars>>

clientVars == <<uiVars, hist, cstate, queued, effects, wsRef, wsSendTimer, lastSendRef,
                suppressBroadcastRef, historyRef, redoRef, inflight, now,
                outbox, editCount, inboundCount, openCount, lastFrame,
                firstEditAt, idleAtFirstEdit, lastCallAt, budget>>

\* the user who opened the connection c
UserOf(c) == jwtVerify(reqToken[c]).sub

\* the clients whose board state is followed, named by their connection
Peers == {"c1", "c2"}

\* the comment requests in flight
CommentReqs == {"q1", "q2"}

\* the share links of board b1
ShareLinks ==
  { [token |-> "sh_comment", boardId |-> "b1", role |-> "comment"],
    [token |-> "sh_view", boardId |-> "b1", role |-> "view"] }

ShareTokens == {"sh_comment", "sh_view", "sh_unknown"}

\* the board as last saved, and the board after the n-th unsaved change of p
StoredHexagons == [by |-> "stored", n |-> 0]
EditedHexagons(p, n) == [by |-> p, n |-> n]
StoredRow == [hexagons |-> StoredHexagons, comments |-> << >>]

\* findUnique answers null for a token no share link has
NoShare == [token |-> Undef, boardId |-> Undef, role |-> Undef]

NoRequest == [phase |-> "idle", token |-> Undef, share |-> NoShare,
              existing |-> StoredRow, nextData |-> StoredRow, status |-> 0]

\* the state of the one client that is followed in detail
appVars == <<presence, presenceList, reader, editorVars, hist, cstate, queued, effects,
             wsRef, wsSendTimer, lastSendRef, suppressBroadcastRef, historyRef,
             redoRef, inflight, now, outbox, editCount, inboundCount, openCount,
             lastFrame, firstEditAt, idleAtFirstEdit, lastCallAt, budget>>

\* ========================================================================
\* Room broker: handlers
\* ========================================================================
\* ------------------------------------------------------------------------
\* Room and presence registries
\* ------------------------------------------------------------------------
MapGet(map, key, default) == IF key \in DOMAIN map THEN map[key] ELSE default

MapSet(map, key, value) ==
  [k \in DOMAIN map \cup {key} |-> IF k = key THEN value ELSE map[k]]

MapDelete(map, key) == [k \in DOMAIN map \ {key} |-> map[k]]

addToRoom(rms, boardId, socket) ==
  MapSet(rms, boardId, MapGet(rms, boardId, {}) \cup {socket})

\* a removal that keeps the entry of a room that has become empty
removeFromRoomKeepEmpty(rms, boardId, socket) ==
  IF boardId \notin DOMAIN rms THEN rms
  ELSE [k \in DOMAIN rms |-> IF k = boardId THEN rms[k] \ {socket} ELSE rms[k]]

removeFromRoom(rms, boardId, socket) ==
  IF boardId \notin DOMAIN rms THEN rms
  ELSE IF rms[boardId] \ {socket} = {} THEN MapDelete(rms, boardId)
  ELSE MapSet(rms, boardId, rms[boardId] \ {socket})

\* the entries of a presence Map, in insertion order
EntrySet(entries, connectionId, label) ==
  IF \E i \in 1..Len(entries) : entries[i].id = connectionId
    THEN [i \in 1..Len(entries) |->
            IF entries[i].id = connectionId
              THEN [id |-> connectionId, label |-> label] ELSE entries[i]]
    ELSE Append(entries, [id |-> connectionId, label |-> label])

EntryDelete(entries, connectionId) ==
  SelectSeq(entries, LAMBDA e : e.id # connectionId)

addPresence(pres, boardId, connectionId, label) ==
  MapSet(pres, boardId, EntrySet(MapGet(pres, boardId, << >>), connectionId, label))

removePresence(pres, boardId, connectionId) ==
  IF boardId \notin DOMAIN pres THEN pres
  ELSE IF EntryDelete(pres[boardId], connectionId) = << >>
    THEN MapDelete(pres, boardId)
  ELSE MapSet(pres, boardId, EntryDelete(pres[boardId], connectionId))

PresenceStatePayloadDiff(pres, boardId) ==
  [type |-> "presence_state", boardId |-> boardId, data |-> Undef,
   sender |-> Undef, cursor |-> Undef, label |-> Undef,
   users |-> LET entries == MapGet(pres, boardId, << >>)
             IN IF entries = << >> THEN << >> ELSE <<entries[Len(entries)]>>]

PresenceStatePayload(pres, boardId) ==
  [type |-> "presence_state", boardId |-> boardId, data |-> Undef,
   sender |-> Undef, cursor |-> Undef, label |-> Undef,
   users |-> MapGet(pres, boardId, << >>)]

NothingSent == [c \in Conns |-> << >>]

\* what broadcastPresenceState(boardId) sends, per socket
broadcastPresenceState(rms, pres, rs, boardId) ==
  [c \in Conns |->
     IF c \in MapGet(rms, boardId, {}) /\ rs[c] = "OPEN"
       THEN <<PresenceStatePayload(pres, boardId)>>
       ELSE << >>]

\* what broadcastToRoom(boardId, payload, skipSocket) sends, per socket
broadcastToRoomNoSkip(rms, rs, boardId, payload, skipSocket) ==
  [c \in Conns |->
     IF c \in MapGet(rms, boardId, {}) /\ rs[c] = "OPEN"
       THEN <<payload>>
       ELSE << >>]

broadcastToRoom(rms, rs, boardId, payload, skipSocket) ==
  [c \in Conns |->
     IF c \in MapGet(rms, boardId, {}) /\ c # skipSocket /\ rs[c] = "OPEN"
       THEN <<payload>>
       ELSE << >>]

\* ------------------------------------------------------------------------
\* wss.on("connection")
\* ------------------------------------------------------------------------
\* the handler up to its await: parameters, jwt.verify
Connect(c, token, boardId) ==
  /\ UNCHANGED clientVars
  /\ phase[c] = "new"
  /\ reqToken' = [reqToken EXCEPT ![c] = token]
  /\ reqBoard' = [reqBoard EXCEPT ![c] = boardId]
  /\ IF token = "" \/ boardId = ""
       THEN /\ closeCode' = [closeCode EXCEPT ![c] = 1008]
            /\ readyState' = [readyState EXCEPT ![c] = "CLOSED"]
            /\ phase' = [phase EXCEPT ![c] = "done"]
       ELSE IF ~jwtVerify(token).ok
         THEN /\ closeCode' = [closeCode EXCEPT ![c] = 1011]
              /\ readyState' = [readyState EXCEPT ![c] = "CLOSED"]
              /\ phase' = [phase EXCEPT ![c] = "done"]
         ELSE /\ readyState' = [readyState EXCEPT ![c] = "OPEN"]
              /\ phase' = [phase EXCEPT ![c] = "authorizing"]
              /\ UNCHANGED closeCode
  /\ sent' = NothingSent
  /\ lastOp' = [op |-> "connect", socket |-> c, frame |-> NoFrame,
                after |-> "none"]
  /\ UNCHANGED <<accessRole, rooms, roomPresence>>

ConnectLabel(email) == IF email = "" THEN "User" ELSE email

\* the handler after `await getBoardForUser`
Authorize(c) ==
  /\ UNCHANGED clientVars
  /\ phase[c] = "authorizing"
  /\ LET payload == jwtVerify(reqToken[c])
         boardId == reqBoard[c]
         board == getBoardForUser(boardId, payload.sub)
         rms == addToRoom(rooms, boardId, c)
         pres == addPresence(roomPresence, boardId, c, ConnectLabel(payload.email))
     IN IF ~board.found
          THEN /\ closeCode' = [closeCode EXCEPT ![c] = 1008]
               /\ readyState' = [readyState EXCEPT ![c] = "CLOSED"]
               /\ phase' = [phase EXCEPT ![c] = "done"]
               /\ sent' = NothingSent
               /\ UNCHANGED <<accessRole, rooms, roomPresence>>
          ELSE /\ accessRole' = [accessRole EXCEPT ![c] = getAccessRole(board, payload.sub)]
               /\ rooms' = rms
               /\ roomPresence' = pres
               /\ sent' = broadcastPresenceState(rms, pres, readyState, boardId)
               /\ phase' = [phase EXCEPT ![c] = "joined"]
               /\ UNCHANGED <<closeCode, readyState>>
  /\ lastOp' = [op |-> "authorize", socket |-> c, frame |-> NoFrame,
                after |-> "none"]
  /\ UNCHANGED <<reqToken, reqBoard>>

\* a frame that cannot be decoded, or whose value has no type the broker
\* relays
Unrecognised(frame) ==
  \/ frame.kind \in {"garbage", "null"}
  \/ frame.type \notin {"board_update", "presence"}

\* a parser that recovers from an undecodable frame with a default message
JSONparseRecover(frame) ==
  IF frame.kind = "garbage"
    THEN [ok |-> TRUE, value |-> CHOOSE f \in PresenceFrames : TRUE]
  ELSE [ok |-> TRUE, value |-> frame]

\* JSON.parse of a frame: throws on an undecodable one
JSONparse(frame) ==
  IF frame.kind = "garbage" THEN [ok |-> FALSE, value |-> NoFrame]
  ELSE [ok |-> TRUE, value |-> frame]

RelayPayload(boardId, message) ==
  IF message.type = "board_update"
    THEN [type |-> "board_update", boardId |-> boardId, data |-> message.data,
          sender |-> message.sender, cursor |-> Undef, label |-> Undef,
          users |-> << >>]
    ELSE [type |-> "presence", boardId |-> boardId, data |-> Undef,
          sender |-> message.sender, cursor |-> message.cursor,
          label |-> message.label, users |-> << >>]

\* a handler that takes the room from the body of the message
RoomBoardOfBody(c, message) == message.boardId

\* the boardId the handlers of connection c close over: the one of its request
RoomBoard(c, message) == reqBoard[c]

\* socket.on("message"): what the handler does to the broker
HandleMessageBroker(c, frame) ==
  /\ phase[c] = "joined"
  /\ readyState[c] = "OPEN"
  /\ lastOp' = [op |-> "message", socket |-> c, frame |-> frame,
                after |-> IF lastOp.op = "message" /\ Unrecognised(lastOp.frame)
                            THEN lastOp.socket ELSE "none"]
  /\ LET parsed == JSONparse(frame)
         message == parsed.value
         boardId == RoomBoard(c, message)
     IN IF ~parsed.ok \/ message.kind = "null"
          THEN sent' = NothingSent
        ELSE IF message.type = "board_update"
          THEN IF ~isEditor(accessRole[c])
                 THEN sent' = NothingSent
                 ELSE sent' = broadcastToRoom(rooms, readyState, boardId,
                                               RelayPayload(boardId, message), c)
        ELSE IF message.type = "presence"
          THEN sent' = broadcastToRoom(rooms, readyState, boardId,
                                        RelayPayload(boardId, message), c)
        ELSE sent' = NothingSent
  /\ UNCHANGED <<phase, readyState, closeCode, reqToken, reqBoard, accessRole,
                 rooms, roomPresence>>

\* socket.on("message")
HandleMessage(c, frame) ==
  /\ UNCHANGED clientVars
  /\ HandleMessageBroker(c, frame)

\* the peer closes the socket; socket.on("close") runs when it is registered
PeerClose(c) ==
  /\ UNCHANGED clientVars
  /\ readyState[c] = "OPEN"
  /\ phase[c] \in {"authorizing", "joined"}
  /\ readyState' = [readyState EXCEPT ![c] = "CLOSED"]
  /\ IF phase[c] = "joined"
       THEN LET boardId == reqBoard[c]
                rms == removeFromRoom(rooms, boardId, c)
                pres == removePresence(roomPresence, boardId, c)
            IN /\ rooms' = rms
               /\ roomPresence' = pres
               /\ sent' = broadcastPresenceState(rms, pres, readyState', boardId)
               /\ phase' = [phase EXCEPT ![c] = "done"]
       ELSE /\ sent' = NothingSent
            /\ UNCHANGED <<rooms, roomPresence, phase>>
  /\ lastOp' = [op |-> "close", socket |-> c, frame |-> NoFrame,
                after |-> "none"]
  /\ UNCHANGED <<closeCode, reqToken, reqBoard, accessRole>>

\* ------------------------------------------------------------------------
\* Collaborators of a board (REST API of the owner)
\* ------------------------------------------------------------------------
\* the role the store gives the user on the board at this moment
StoreRole(rows, boardId, userId) ==
  IF boardId \notin BoardIds THEN "none"
  ELSE IF OwnerId[boardId] = userId THEN "owner"
  ELSE IF \E r \in rows : r.boardId = boardId /\ r.userId = userId
    THEN (CHOOSE r \in rows : r.boardId = boardId /\ r.userId = userId).role
  ELSE "none"

\* POST /boards/:id/collaborators by the owner: prisma.boardCollaborator.upsert
UpsertCollaborator(boardId, userId, role) ==
  /\ role \in {"editor", "viewer"}
  /\ collabs' = {r \in collabs : ~(r.boardId = boardId /\ r.userId = userId)}
                  \cup {[boardId |-> boardId, userId |-> userId, role |-> role]}
  /\ sent' = NothingSent
  /\ lastOp' = [op |-> "collaborators", socket |-> "none", frame |-> NoFrame,
                after |-> "none"]
  /\ UNCHANGED <<phase, readyState, closeCode, reqToken, reqBoard, accessRole,
                 rooms, roomPresence>>
  /\ UNCHANGED <<roomVars, appVars>>

\* DELETE /boards/:id/collaborators/:collaboratorId by the owner: deleteMany
DeleteCollaborator(boardId, userId) ==
  /\ \E r \in collabs : r.boardId = boardId /\ r.userId = userId
  /\ collabs' = {r \in collabs : ~(r.boardId = boardId /\ r.userId = userId)}
  /\ sent' = NothingSent
  /\ lastOp' = [op |-> "collaborators", socket |-> "none", frame |-> NoFrame,
                after |-> "none"]
  /\ UNCHANGED <<phase, readyState, closeCode, reqToken, reqBoard, accessRole,
                 rooms, roomPresence>>
  /\ UNCHANGED <<roomVars, appVars>>

\* a connection request for board b1 made while the store still holds the
\* rows the server started with
ConnectEarlier(c, token) == collabs = Collaborators /\ Connect(c, token, "b1")

AuthorizeEarlier(c) == collabs = Collaborators /\ Authorize(c)

\* ------------------------------------------------------------------------
\* The clients of one room and the frames between them and the broker
\* ------------------------------------------------------------------------
\* both clients have opened board b1 and their sockets have joined its room
RoomJoined == \A p \in Peers : phase[p] = "joined" /\ reqBoard[p] = "b1"

\* a change on the canvas of client p: setBoardData with a state of its own
PeerEdit(p) ==
  /\ RoomJoined
  /\ peers[p].edits < RoomMaxEdits
  /\ peers' = [peers EXCEPT
                 ![p].boardData.hexagons = EditedHexagons(p, peers[p].edits + 1),
                 ![p].pending = TRUE,
                 ![p].edits = @ + 1]
  /\ UNCHANGED <<brokerVars, collabs, row, creq, up, down, appVars>>

\* the broadcast effect of client p after a render that changed boardData;
\* the last send is more than throttleMs ago, so queueBoardBroadcast sends
PeerEffect(p) ==
  /\ peers[p].pending
  /\ IF peers[p].suppress
       THEN /\ peers' = [peers EXCEPT ![p].pending = FALSE, ![p].suppress = FALSE]
            /\ up' = up
       ELSE /\ peers' = [peers EXCEPT ![p].pending = FALSE]
            /\ up' = IF readyState[p] = "OPEN"
                       THEN [up EXCEPT ![p] = Append(@,
                              [kind |-> "object", type |-> "board_update",
                               boardId |-> "b1", data |-> peers[p].boardData,
                               sender |-> p, cursor |-> Undef, label |-> Undef])]
                       ELSE up
  /\ UNCHANGED <<brokerVars, collabs, row, creq, down, appVars>>

\* socket.onmessage of client p for the next frame of its socket
PeerReceive(p) ==
  /\ down[p] # << >>
  /\ down' = [down EXCEPT ![p] = Tail(@)]
  /\ LET message == Head(down[p])
     IN IF message.type = "board_update" /\ message.sender # p
          THEN peers' = [peers EXCEPT ![p].suppress = TRUE,
                                      ![p].boardData = message.data,
                                      ![p].pending = TRUE]
          ELSE peers' = peers
  /\ UNCHANGED <<brokerVars, collabs, row, creq, up, appVars>>

\* socket.on("message") of the broker for the next frame client p has sent
RoomRelay(p) ==
  /\ up[p] # << >>
  /\ HandleMessageBroker(p, Head(up[p]))
  /\ up' = [up EXCEPT ![p] = Tail(@)]
  /\ down' = [d \in Peers |-> down[d] \o sent'[d]]
  /\ UNCHANGED <<collabs, row, creq, peers, appVars>>

\* the client p joins the room of b1 as the owner or as an editor
PeerConnect(p) ==
  Connect(p, IF p = "c1" THEN "tok_u1" ELSE "tok_u2", "b1")

\* ------------------------------------------------------------------------
\* Saving a board and commenting through a share link (REST API)
\* ------------------------------------------------------------------------
\* PUT /boards/:id by client p, an editor: prisma.board.update with the state
\* the client shows
PeerSave(p) ==
  /\ RoomJoined
  /\ isEditor(StoreRole(collabs, "b1", UserOf(p)))
  /\ row # peers[p].boardData
  /\ row' = peers[p].boardData
  /\ UNCHANGED <<brokerVars, collabs, creq, peers, up, down, appVars>>

ShareOf(token) ==
  IF \E sh \in ShareLinks : sh.token = token
    THEN CHOOSE sh \in ShareLinks : sh.token = token
    ELSE NoShare

\* POST /share/:token/comments up to the first await: the body is checked
\* and prisma.boardShare.findUnique reads the share with its board
CommentRead(r, token, bodyOk) ==
  /\ creq[r].phase = "idle"
  /\ IF ~bodyOk
       THEN creq' = [creq EXCEPT ![r].phase = "done", ![r].status = 400]
       ELSE creq' = [creq EXCEPT ![r].phase = "read", ![r].token = token,
                                 ![r].share = ShareOf(token),
                                 ![r].existing = row]
  /\ UNCHANGED <<brokerVars, collabs, row, peers, up, down, appVars>>

\* from the answer of findUnique to prisma.board.update
CommentWrite(r) ==
  /\ creq[r].phase = "read"
  /\ IF creq[r].share = NoShare
       THEN /\ creq' = [creq EXCEPT ![r].phase = "done", ![r].status = 404]
            /\ row' = row
     ELSE IF creq[r].share.role # "comment"
       THEN /\ creq' = [creq EXCEPT ![r].phase = "done", ![r].status = 403]
            /\ row' = row
     ELSE LET existing == creq[r].existing
              nextData == [existing EXCEPT !.comments = Append(@, r)]
          IN /\ creq' = [creq EXCEPT ![r].phase = "written", ![r].nextData = nextData]
             /\ row' = nextData
  /\ UNCHANGED <<brokerVars, collabs, peers, up, down, appVars>>

\* after the update: broadcastToRoom(share.board.id, payload, null) and 201
CommentFinish(r) ==
  /\ creq[r].phase = "written"
  /\ creq' = [creq EXCEPT ![r].phase = "done", ![r].status = 201]
  /\ sent' = broadcastToRoom(rooms, readyState, creq[r].share.boardId,
                  [type |-> "board_update", boardId |-> creq[r].share.boardId,
                   data |-> creq[r].nextData, sender |-> "share:" \o creq[r].token,
                   cursor |-> Undef, label |-> Undef, users |-> << >>], "none")
  /\ down' = [d \in Peers |-> down[d] \o sent'[d]]
  /\ lastOp' = [op |-> "comment", socket |-> "none", frame |-> NoFrame,
                after |-> "none"]
  /\ UNCHANGED <<phase, readyState, closeCode, reqToken, reqBoard, accessRole,
                 rooms, roomPresence>>
  /\ UNCHANGED <<collabs, row, peers, up, appVars>>

\* ========================================================================
\* Realtime sync client: handlers
\* ========================================================================
NoInbound == [type |-> "none", sender |-> "none", data |-> EmptyData]

\* the boards the canvas starts from: three hexagons on one row, unconnected
\* or with one mutual connection
Hex(id, number, x, y, connections) ==
  [id |-> id, number |-> number, x |-> x, y |-> y, connections |-> connections]

InitialBoards ==
  { <<Hex("h1", 1, 0, 0, {}), Hex("h2", 2, 1500, 0, {}), Hex("h3", 3, 800, 0, {})>>,
    <<Hex("h1", 1, 0, 0, {"h3"}), Hex("h2", 2, 1500, 0, {}), Hex("h3", 3, 800, 0, {"h1"})>> }

\* Math.max(0, ...hexagons.map((hex) => hex.number || 0))
RECURSIVE MaxNumber(_)
MaxNumber(hs) ==
  IF hs = << >> THEN 0
  ELSE LET rest == MaxNumber(Tail(hs))
       IN IF Head(hs).number >= rest THEN Head(hs).number ELSE rest

NoDrag == [id |-> "none"]
Null == [x |-> "null"]
Origin == [x |-> 0, y |-> 0]
NoGesture == [kind |-> "none", down |-> FALSE, id |-> "none", moves |-> 0,
              start |-> Origin, last |-> Origin, lastT |-> 0,
              fast |-> FALSE, slow |-> TRUE, conns0 |-> << >>,
              repeat |-> FALSE, within |-> FALSE, before |-> << >>, sel |-> {},
              atDown |-> << >>, shift |-> FALSE]

\* the store when the server starts
SessionStart ==
  /\ collabs = Collaborators
  /\ row = StoredRow
  /\ creq = [r \in CommentReqs |-> NoRequest]
  /\ peers = [p \in Peers |-> [boardData |-> StoredRow, suppress |-> FALSE,
                                pending |-> FALSE, edits |-> 0]]
  /\ up = [p \in Peers |-> << >>]
  /\ down = [p \in Peers |-> << >>]

\* numbers of the view are fractions n / d in lowest terms, d > 0
RECURSIVE GCD(_, _)
GCD(a, b) == IF b = 0 THEN a ELSE GCD(b, a % b)

Rat(n, d) ==
  LET g == GCD(IF n < 0 THEN -n ELSE n, d)
  IN IF n = 0 THEN [n |-> 0, d |-> 1] ELSE [n |-> n \div g, d |-> d \div g]

RatAdd(a, b) == Rat(a.n * b.d + b.n * a.d, a.d * b.d)
RatSub(a, b) == Rat(a.n * b.d - b.n * a.d, a.d * b.d)
\* a * n / d for integers n and d > 0
RatScale(a, n, d) == Rat(a.n * n, a.d * d)

\* svg.getBoundingClientRect() of the canvas
CanvasRect == [width |-> 1000, height |-> 800]
CanvasCentre == [x |-> Rat(CanvasRect.width, 2), y |-> Rat(CanvasRect.height, 2)]

\* the view of a board that stores no viewport, once it is open
ViewStart == [zoom |-> zoomMid, pan |-> CanvasCentre, lastSelectedId |-> "null",
              zooms |-> 0]

\* the canvas at rest, showing the hexagons hs
EditorStart(hs) ==
  /\ hexagons = hs
  /\ selectedIds = {}
  /\ dragState = NoDrag
  /\ marqueeStart = Null
  /\ marqueeRect = Null
  /\ panState = Null
  /\ view = ViewStart
  /\ etime = 0
  /\ newCount = 0
  /\ gest = NoGesture
  /\ lastEd = [op |-> "none", gestures |-> 0, buttons |-> 0,
               assigned |-> MaxNumber(hs), assignedBefore |-> MaxNumber(hs),
               created |-> {}]

ClientStart ==
  /\ cstate = [boardData |-> EmptyData, seq |-> 0, cause |-> "init",
               activeBoardId |-> NoBoard, activeBoardRole |-> "owner",
               sharedView |-> FALSE, dataOf |-> NoBoard]
  /\ queued = cstate
  /\ effects = [ws |-> FALSE, bcast |-> FALSE]
  /\ wsRef = NoSocket
  /\ wsSendTimer = NoTimer
  /\ lastSendRef = 0
  /\ suppressBroadcastRef = FALSE
  /\ historyRef = << >>
  /\ redoRef = << >>
  /\ inflight = {}
  /\ now = MinInterval
  /\ outbox = << >>
  /\ editCount = 0
  /\ inboundCount = 0
  /\ openCount = 0
  /\ lastFrame = NoInbound
  /\ firstEditAt = 0
  /\ idleAtFirstEdit = FALSE
  /\ lastCallAt = 0
  /\ presence = << >>
  /\ presenceList = << >>
  /\ reader = NoReader
  /\ hist = [n |-> 0, op |-> "none", pre |-> EmptyData, post |-> EmptyData,
             settled |-> TRUE, seq |-> 0, prevOp |-> "none",
             prevPre |-> EmptyData, prevSettled |-> TRUE, imm |-> FALSE,
             undos |-> 0, redos |-> 0]
  /\ EditorStart(<< >>)
  /\ SessionStart

ClientInit ==
  /\ ClientStart
  /\ budget = [edits |-> MaxEdits, inbound |-> MaxInbound, opens |-> MaxOpens,
               maxTime |-> MinInterval]

ThrottleInit ==
  /\ ClientStart
  /\ budget = [edits |-> ThrottleMaxEdits, inbound |-> 0, opens |-> 1,
               maxTime |-> ThrottleMaxTime]

\* the board b1 opened by its owner: loaded, rendered, socket open
BoardOpenSync ==
  /\ cstate = [boardData |-> StoredData("b1"), seq |-> 1, cause |-> "load",
               activeBoardId |-> "b1", activeBoardRole |-> BoardAccessRole["b1"],
               sharedView |-> FALSE, dataOf |-> "b1"]
  /\ queued = cstate
  /\ effects = [ws |-> FALSE, bcast |-> FALSE]
  /\ wsRef = [board |-> "b1", readyState |-> "OPEN"]
  /\ wsSendTimer = NoTimer
  /\ lastSendRef = 0
  /\ suppressBroadcastRef = FALSE
  /\ historyRef = << >>
  /\ redoRef = << >>
  /\ inflight = {}
  /\ now = MinInterval
  /\ outbox = << >>
  /\ editCount = 0
  /\ inboundCount = 0
  /\ openCount = 1
  /\ lastFrame = NoInbound
  /\ firstEditAt = 0
  /\ idleAtFirstEdit = FALSE
  /\ lastCallAt = 0
  /\ presence = << >>
  /\ presenceList = << >>
  /\ reader = NoReader
  /\ hist = [n |-> 0, op |-> "none", pre |-> EmptyData, post |-> EmptyData,
             settled |-> TRUE, seq |-> 0, prevOp |-> "none",
             prevPre |-> EmptyData, prevSettled |-> TRUE, imm |-> FALSE,
             undos |-> 0, redos |-> 0]
  /\ SessionStart

BoardOpen == BoardOpenSync /\ EditorStart(<< >>)

HistoryInit ==
  /\ BoardOpen
  /\ budget = [edits |-> HistMaxCommits, inbound |-> 1, opens |-> 1,
               maxTime |-> MinInterval, undos |-> HistMaxUndos,
               redos |-> HistMaxUndos]

HistoryCapInit ==
  /\ BoardOpen
  /\ budget = [edits |-> CapMaxCommits, inbound |-> 0, opens |-> 1,
               maxTime |-> MinInterval, undos |-> CapMaxUndos,
               redos |-> CapMaxUndos]

SwitchInit ==
  /\ ClientStart
  /\ budget = [edits |-> SwitchMaxEdits, inbound |-> 0, opens |-> SwitchMaxOpens,
               maxTime |-> SyncMaxTime]

SyncInit ==
  /\ BoardOpen
  /\ budget = [edits |-> SyncMaxEdits, inbound |-> SyncMaxInbound, opens |-> 1,
               maxTime |-> SyncMaxTime]

EditorInit ==
  /\ BoardOpenSync
  /\ \E hs \in InitialBoards : EditorStart(hs)
  /\ budget = [edits |-> 0, inbound |-> 0, opens |-> 1, maxTime |-> MinInterval,
               gestures |-> EdMaxGestures, moves |-> EdMaxMoves,
               buttons |-> EdMaxButtons]

\* a connected pair and a free hexagon, or a board received with a
\* connection that only one of its ends lists
DragBoards ==
  { <<Hex("h1", 1, 0, 0, {"h3"}), Hex("h2", 2, 1500, 0, {}), Hex("h3", 3, 800, 0, {"h1"})>>,
    <<Hex("h1", 1, 0, 0, {"h3"}), Hex("h2", 2, 1500, 0, {}), Hex("h3", 3, 800, 0, {})>> }

DragInit ==
  /\ BoardOpenSync
  /\ \E hs \in DragBoards : EditorStart(hs)
  /\ budget = [edits |-> 0, inbound |-> 0, opens |-> 1, maxTime |-> MinInterval,
               gestures |-> DragMaxGestures, moves |-> DragMaxMoves,
               buttons |-> DragMaxButtons]

\* a chain h1 - h3 - h2 whose end also lists a hexagon that is not on the
\* board, or three hexagons connected in a cycle
PressBoards ==
  { <<Hex("h1", 1, 0, 0, {"h3"}), Hex("h2", 2, 1500, 0, {"h3", "n3"}),
      Hex("h3", 3, 800, 0, {"h1", "h2"})>>,
    <<Hex("h1", 1, 0, 0, {"h2", "h3"}), Hex("h2", 2, 1500, 0, {"h1", "h3"}),
      Hex("h3", 3, 800, 0, {"h1", "h2"})>>,
    <<Hex("h1", 1, 0, 0, {}), Hex("h2", 2, 1500, 0, {}), Hex("h3", 3, 800, 0, {})>> }

PressInit ==
  /\ BoardOpenSync
  /\ \E hs \in PressBoards : EditorStart(hs)
  /\ budget = [edits |-> 0, inbound |-> 0, opens |-> 1, maxTime |-> MinInterval,
               gestures |-> PressMaxGestures, moves |-> 0, buttons |-> 0]

\* a connected pair and a free hexagon; presses, pans, deletions and zooms
ZoomInit ==
  /\ BoardOpenSync
  /\ EditorStart(<<Hex("h1", 1, 0, 0, {"h3"}), Hex("h2", 2, 1500, 0, {}),
                   Hex("h3", 3, 800, 0, {"h1"})>>)
  /\ budget = [edits |-> 0, inbound |-> 0, opens |-> 1, maxTime |-> MinInterval,
               gestures |-> ZoomMaxGestures, moves |-> EdMaxMoves,
               buttons |-> DragMaxButtons, zooms |-> ZoomMaxChanges]

\* a connected pair and a free hexagon; drags and undo only
RedragInit ==
  /\ BoardOpenSync
  /\ EditorStart(<<Hex("h1", 1, 0, 0, {"h3"}), Hex("h2", 2, 1500, 0, {}),
                   Hex("h3", 3, 800, 0, {"h1"})>>)
  /\ budget = [edits |-> 0, inbound |-> 0, opens |-> 1, maxTime |-> MinInterval,
               gestures |-> RedragMaxGestures, moves |-> EdMaxMoves,
               buttons |-> DragMaxButtons]

\* three unconnected hexagons on one row; press, move and release only
SnapInit ==
  /\ BoardOpenSync
  /\ EditorStart(<<Hex("h1", 1, 0, 0, {}), Hex("h2", 2, 1500, 0, {}), Hex("h3", 3, 800, 0, {})>>)
  /\ budget = [edits |-> 0, inbound |-> 0, opens |-> 1, maxTime |-> MinInterval,
               gestures |-> SnapMaxGestures, moves |-> EdMaxMoves, buttons |-> 0]

PresenceInit ==
  /\ ClientStart
  /\ budget = [edits |-> 0, inbound |-> 0, opens |-> 1, maxTime |-> MinInterval]

canEdit(st) ==
  ~st.sharedView /\ (st.activeBoardRole = "owner" \/ st.activeBoardRole = "editor")

\* setBoardData(data) on top of the queued updates
setBoardData(q, data, cause) ==
  [q EXCEPT !.boardData = data, !.seq = @ + 1, !.cause = cause]

LastUncapped(seq, n) == seq

Last(seq, n) == IF Len(seq) <= n THEN seq ELSE SubSeq(seq, Len(seq) - n + 1, Len(seq))

\* ------------------------------------------------------------------------
\* Board list, openBoard, shared links
\* ------------------------------------------------------------------------
\* openBoard(id) up to `await getBoard(id)`
OpenBoard(id) ==
  /\ cstate.activeBoardId = NoBoard
  /\ queued.activeBoardId = NoBoard
  /\ ~cstate.sharedView
  /\ openCount < budget.opens
  /\ openCount' = openCount + 1
  /\ queued' = [queued EXCEPT !.activeBoardId = id, !.sharedView = FALSE]
  /\ inflight' = inflight \cup {id}
  /\ UNCHANGED <<brokerVars, uiVars, hist, budget, idleAtFirstEdit, cstate, effects, wsRef, wsSendTimer, lastSendRef,
                 suppressBroadcastRef, historyRef, redoRef, now, outbox,
                 editCount, inboundCount, lastFrame, firstEditAt, lastCallAt>>

\* openBoard(id) after the response of getBoard(id)
BoardLoaded(id) ==
  /\ id \in inflight
  /\ inflight' = inflight \ {id}
  /\ queued' = setBoardData([queued EXCEPT !.activeBoardRole = BoardAccessRole[id],
                                           !.dataOf = id],
                            StoredData(id), "load")
  /\ historyRef' = << >>
  /\ redoRef' = << >>
  /\ UNCHANGED <<brokerVars, uiVars, hist, budget, idleAtFirstEdit, cstate, effects, wsRef, wsSendTimer, lastSendRef,
                 suppressBroadcastRef, now, outbox, editCount, inboundCount,
                 openCount, lastFrame, firstEditAt, lastCallAt>>

\* openBoard(id): getBoard(id) rejects, the catch only reports the error
LoadFailed(id) ==
  /\ id \in inflight
  /\ inflight' = inflight \ {id}
  /\ UNCHANGED <<brokerVars, uiVars, hist, budget, idleAtFirstEdit, cstate, queued, effects, wsRef, wsSendTimer, lastSendRef,
                 suppressBroadcastRef, historyRef, redoRef, now, outbox,
                 editCount, inboundCount, openCount, lastFrame, firstEditAt,
                 lastCallAt>>

\* the mount effect of a ?share= link, at the response of getSharedBoard
SharedLoaded(id) ==
  /\ openCount = 0
  /\ cstate.activeBoardId = NoBoard
  /\ queued = cstate
  /\ openCount' = openCount + 1
  /\ queued' = setBoardData([queued EXCEPT !.sharedView = TRUE,
                                           !.activeBoardId = id,
                                           !.activeBoardRole = "viewer",
                                           !.dataOf = id],
                            StoredData(id), "load")
  /\ UNCHANGED <<brokerVars, uiVars, hist, budget, idleAtFirstEdit, cstate, effects, wsRef, wsSendTimer, lastSendRef,
                 suppressBroadcastRef, historyRef, redoRef, inflight, now,
                 outbox, editCount, inboundCount, lastFrame, firstEditAt,
                 lastCallAt>>

\* the Back button of the board view: exitSharedView() or setActiveBoardId(null)
Back ==
  /\ cstate.activeBoardId # NoBoard
  /\ queued.activeBoardId # NoBoard
  /\ queued' = IF cstate.sharedView
                 THEN setBoardData([queued EXCEPT !.sharedView = FALSE,
                                                  !.activeBoardId = NoBoard,
                                                  !.dataOf = NoBoard],
                                   EmptyData, "load")
                 ELSE [queued EXCEPT !.activeBoardId = NoBoard]
  /\ UNCHANGED <<brokerVars, uiVars, hist, budget, idleAtFirstEdit, cstate, effects, wsRef, wsSendTimer, lastSendRef,
                 suppressBroadcastRef, historyRef, redoRef, inflight, now,
                 outbox, editCount, inboundCount, openCount, lastFrame,
                 firstEditAt, lastCallAt>>

\* ------------------------------------------------------------------------
\* Render and passive effects
\* ------------------------------------------------------------------------
\* React renders the queued state updates; the effects whose dependencies
\* changed are scheduled and run later (after paint), before the next render
Render ==
  /\ queued # cstate
  /\ ~effects.ws /\ ~effects.bcast
  /\ cstate' = queued
  /\ effects' = [ws |-> queued.activeBoardId # cstate.activeBoardId,
                 bcast |-> \/ queued.seq # cstate.seq
                           \/ queued.activeBoardId # cstate.activeBoardId]
  /\ UNCHANGED <<brokerVars, uiVars, hist, budget, idleAtFirstEdit, queued, wsRef, wsSendTimer, lastSendRef, suppressBroadcastRef,
                 historyRef, redoRef, inflight, now, outbox, editCount,
                 inboundCount, openCount, lastFrame, firstEditAt, lastCallAt>>

\* useEffect([activeBoardId, token]): close the old socket, open the new one
SocketEffect(st) ==
  IF st.activeBoardId = NoBoard THEN NoSocket
  ELSE [board |-> st.activeBoardId, readyState |-> "CONNECTING"]

\* the frame send() writes, with who produced its data and when it was sent
SentFrame(ws, boardId, data, seq, cause, dataOf) ==
  [type |-> "board_update", boardId |-> boardId, data |-> data,
   sender |-> clientId, sock |-> ws.board, shared |-> cstate.sharedView,
   seq |-> seq, cause |-> cause, at |-> now, dataOf |-> dataOf]

\* queueBoardBroadcast: the guards before Date.now()
BroadcastAllowed(st, ws) ==
  /\ canEdit(st)
  /\ st.activeBoardId # NoBoard
  /\ ws.readyState = "OPEN"

\* queueBoardBroadcast: send now when the minimum interval has elapsed
SendNow(elapsed) == elapsed >= MinInterval

\* queueBoardBroadcast: clearTimeout of the pending send, then setTimeout
SupersedeKeepFirst(pending, scheduled) == IF pending.active THEN pending ELSE scheduled

Supersede(pending, scheduled) == scheduled

\* queueBoardBroadcast(nextData), called by the render st with socket ws
queueBoardBroadcast(st, ws) ==
  IF ~BroadcastAllowed(st, ws)
    THEN UNCHANGED <<outbox, lastSendRef, wsSendTimer, lastCallAt>>
    ELSE /\ lastCallAt' = now
         /\ IF SendNow(now - lastSendRef)
              THEN /\ outbox' = Append(outbox, SentFrame(ws, st.activeBoardId,
                                         st.boardData, st.seq, st.cause, st.dataOf))
                   /\ lastSendRef' = now
                   /\ UNCHANGED wsSendTimer
              ELSE /\ wsSendTimer' = Supersede(wsSendTimer,
                                      [active |-> TRUE,
                                       due |-> now + (MinInterval - (now - lastSendRef)),
                                       data |-> st.boardData,
                                       boardId |-> st.activeBoardId,
                                       seq |-> st.seq, cause |-> st.cause,
                                       dataOf |-> st.dataOf])
                   /\ UNCHANGED <<outbox, lastSendRef>>

\* the passive effects of the committed render, in declaration order:
\* useEffect([activeBoardId, token]) then useEffect([boardData, activeBoardId])
FlushEffects ==
  /\ effects.ws \/ effects.bcast
  /\ effects' = [ws |-> FALSE, bcast |-> FALSE]
  /\ wsRef' = IF effects.ws THEN SocketEffect(cstate) ELSE wsRef
  /\ IF ~effects.bcast
       THEN UNCHANGED <<suppressBroadcastRef, outbox, lastSendRef, wsSendTimer, lastCallAt>>
       ELSE IF suppressBroadcastRef
         THEN /\ suppressBroadcastRef' = FALSE
              /\ UNCHANGED <<outbox, lastSendRef, wsSendTimer, lastCallAt>>
         ELSE /\ queueBoardBroadcast(cstate, wsRef')
              /\ UNCHANGED suppressBroadcastRef
  /\ UNCHANGED <<brokerVars, uiVars, hist, budget, idleAtFirstEdit, cstate, queued, historyRef, redoRef, inflight, now, editCount,
                 inboundCount, openCount, lastFrame, firstEditAt>>

\* the callback of window.setTimeout: send() of the render that scheduled it
TimerFire ==
  /\ wsSendTimer.active
  /\ now >= wsSendTimer.due
  /\ wsSendTimer' = NoTimer
  /\ IF wsRef.readyState = "OPEN"
       THEN /\ outbox' = Append(outbox, SentFrame(wsRef, wsSendTimer.boardId,
                                  wsSendTimer.data, wsSendTimer.seq, wsSendTimer.cause,
                                  wsSendTimer.dataOf))
            /\ lastSendRef' = now
       ELSE UNCHANGED <<outbox, lastSendRef>>
  /\ UNCHANGED <<brokerVars, uiVars, hist, budget, idleAtFirstEdit, cstate, queued, effects, wsRef, suppressBroadcastRef, historyRef,
                 redoRef, inflight, now, editCount, inboundCount, openCount,
                 lastFrame, firstEditAt, lastCallAt>>

\* ------------------------------------------------------------------------
\* The socket of the active board
\* ------------------------------------------------------------------------
SocketOpened ==
  /\ wsRef.readyState = "CONNECTING"
  /\ wsRef' = [wsRef EXCEPT !.readyState = "OPEN"]
  /\ UNCHANGED <<brokerVars, uiVars, hist, budget, idleAtFirstEdit, cstate, queued, effects, wsSendTimer, lastSendRef,
                 suppressBroadcastRef, historyRef, redoRef, inflight, now,
                 outbox, editCount, inboundCount, openCount, lastFrame,
                 firstEditAt, lastCallAt>>

SocketClosed ==
  /\ wsRef.readyState \in {"CONNECTING", "OPEN"}
  /\ wsRef' = [wsRef EXCEPT !.readyState = "CLOSED"]
  /\ UNCHANGED <<brokerVars, uiVars, hist, budget, idleAtFirstEdit, cstate, queued, effects, wsSendTimer, lastSendRef,
                 suppressBroadcastRef, historyRef, redoRef, inflight, now,
                 outbox, editCount, inboundCount, openCount, lastFrame,
                 firstEditAt, lastCallAt>>

\* the n-th inbound frame, a board_update relayed by the broker
InboundFrame(sdr, n) ==
  [type |-> "board_update", sender |-> sdr, data |-> RemoteData(n)]

\* socket.onmessage: the test that drops the client's own frames
IsOwnEchoNever(message) == FALSE

IsOwnEcho(message) == message.sender = clientId

\* socket.onmessage for a board_update frame
OnBoardUpdateWithHistory(message) ==
  IF IsOwnEcho(message)
    THEN UNCHANGED <<suppressBroadcastRef, queued, historyRef, redoRef>>
    ELSE /\ suppressBroadcastRef' = TRUE
         /\ historyRef' = Last(Append(historyRef, JSONstringifyData(cstate.boardData)), HistoryCap)
         /\ redoRef' = << >>
         /\ queued' = setBoardData([queued EXCEPT !.dataOf = wsRef.board],
                                   message.data, "remote")

OnBoardUpdate(message) ==
  IF IsOwnEcho(message)
    THEN UNCHANGED <<suppressBroadcastRef, queued, historyRef, redoRef>>
    ELSE /\ suppressBroadcastRef' = TRUE
         /\ queued' = setBoardData([queued EXCEPT !.dataOf = wsRef.board],
                                   message.data, "remote")
         /\ UNCHANGED <<historyRef, redoRef>>

\* socket.onmessage, for a frame whose sender field is sdr
Receive(sdr) ==
  /\ wsRef.readyState = "OPEN"
  /\ inboundCount < budget.inbound
  /\ inboundCount' = inboundCount + 1
  /\ lastFrame' = InboundFrame(sdr, inboundCount + 1)
  /\ OnBoardUpdate(InboundFrame(sdr, inboundCount + 1))
  /\ UNCHANGED <<brokerVars, uiVars, hist, budget, idleAtFirstEdit, cstate, effects, wsRef, wsSendTimer, lastSendRef, inflight,
                 now, outbox, editCount, openCount, firstEditAt, lastCallAt>>

\* ------------------------------------------------------------------------
\* Presence: cursors of the peers, roster of the room
\* ------------------------------------------------------------------------
\* the connection id the broker gave each client of the room
ConnectionOf == [sdr \in Senders |-> "k_" \o sdr]

Cursors == {"p1", "p2"}

\* a presence frame of client sdr, as the broker relays it
InboundPresence(sdr, cursor, boardId) ==
  RelayPayload(boardId,
               [kind |-> "object", type |-> "presence", boardId |-> boardId,
                data |-> Undef, sender |-> sdr, cursor |-> cursor,
                label |-> "Guest"])

\* the rosters of a room this client is a member of
Rosters ==
  LET entry(sdr) == [id |-> ConnectionOf[sdr], label |-> sdr]
  IN {<<entry(clientId)>>, <<entry(clientId), entry("peer")>>,
      <<entry("peer"), entry(clientId)>>}

\* a presence_state frame, as broadcastPresenceState sends it
InboundPresenceState(roster, boardId) ==
  PresenceStatePayload(MapSet(<< >>, boardId, roster), boardId)

InRoster(connectionId) ==
  \E i \in 1..Len(presenceList) : presenceList[i].id = connectionId

\* setPresence((prev) => ({...prev, [sender]: {cursor, label}}))
setPresence(prev, message) ==
  MapSet(prev, message.sender, [cursor |-> message.cursor, label |-> message.label])

\* socket.onmessage for a presence frame; the broker relays the presence
\* frames of the members of the room
ReceivePresence(sdr, cursor) ==
  /\ wsRef.readyState = "OPEN"
  /\ InRoster(ConnectionOf[sdr])
  /\ LET message == InboundPresence(sdr, cursor, wsRef.board)
     IN /\ lastFrame' = [type |-> message.type, sender |-> message.sender,
                         data |-> EmptyData]
        /\ presence' = IF IsOwnEcho(message) THEN presence
                        ELSE setPresence(presence, message)
  /\ UNCHANGED <<brokerVars, presenceList, reader, editorVars, sessionVars, hist, budget, idleAtFirstEdit, cstate, queued,
                 effects, wsRef, wsSendTimer, lastSendRef, suppressBroadcastRef,
                 historyRef, redoRef, inflight, now, outbox, editCount,
                 inboundCount, openCount, firstEditAt, lastCallAt>>

\* socket.onmessage for a presence_state frame
ReceivePresenceState(roster) ==
  /\ wsRef.readyState = "OPEN"
  /\ LET message == InboundPresenceState(roster, wsRef.board)
     IN /\ lastFrame' = [type |-> message.type, sender |-> "none",
                         data |-> EmptyData]
        /\ presenceList' = message.users
  /\ UNCHANGED <<brokerVars, presence, reader, editorVars, sessionVars, hist, budget, idleAtFirstEdit, cstate, queued,
                 effects, wsRef, wsSendTimer, lastSendRef, suppressBroadcastRef,
                 historyRef, redoRef, inflight, now, outbox, editCount,
                 inboundCount, openCount, firstEditAt, lastCallAt>>

\* ------------------------------------------------------------------------
\* Local changes of the board
\* ------------------------------------------------------------------------
EditingEnabled ==
  /\ cstate.activeBoardId # NoBoard
  /\ canEdit(cstate)
  /\ editCount < budget.edits

\* the client is connected, has loaded its board, has nothing to render,
\* run or send, and its last send is at least MinInterval old
Idle ==
  /\ wsRef.readyState = "OPEN"
  /\ inflight = {}
  /\ queued = cstate
  /\ ~effects.ws /\ ~effects.bcast
  /\ ~wsSendTimer.active
  /\ now - lastSendRef >= MinInterval

\* what a commit, undo or redo records: the state it found (pre), the state
\* it left (post), whether the state it found was rendered (settled), and
\* whether it directly follows the previous one (imm): that one's state is
\* rendered and nothing has changed the state since
HistStep(op, next) ==
  [n |-> hist.n + 1, op |-> op, pre |-> queued.boardData,
   post |-> next.boardData, settled |-> queued = cstate, seq |-> next.seq,
   prevOp |-> hist.op, prevPre |-> hist.pre, prevSettled |-> hist.settled,
   imm |-> queued = cstate /\ queued.seq = hist.seq,
   undos |-> hist.undos + (IF op = "undo" THEN 1 ELSE 0),
   redos |-> hist.redos + (IF op = "redo" THEN 1 ELSE 0)]

\* pushHistory: the two stacks after the push of the render's boardData
pushHistoryKeepRedo(history, redoStack, boardData) ==
  [history |-> Last(Append(history, JSONstringifyData(boardData)), HistoryCap),
   redo |-> redoStack]

\* a push that stores the snapshot twice
pushHistoryTwice(history, redoStack, boardData) ==
  [history |-> Last(history \o <<JSONstringifyData(boardData), JSONstringifyData(boardData)>>,
                    HistoryCap),
   redo |-> << >>]

pushHistory(history, redoStack, boardData) ==
  [history |-> Last(Append(history, JSONstringifyData(boardData)), HistoryCap),
   redo |-> << >>]

\* pushHistory(nextData), by any editing handler
LocalEdit ==
  /\ EditingEnabled
  /\ editCount' = editCount + 1
  /\ firstEditAt' = IF editCount = 0 THEN now ELSE firstEditAt
  /\ idleAtFirstEdit' = IF editCount = 0 THEN Idle ELSE idleAtFirstEdit
  /\ historyRef' = pushHistory(historyRef, redoRef, cstate.boardData).history
  /\ redoRef' = pushHistory(historyRef, redoRef, cstate.boardData).redo
  /\ queued' = setBoardData(queued, LocalData(editCount + 1), "local")
  /\ hist' = HistStep("commit", queued')
  /\ UNCHANGED <<brokerVars, uiVars, budget, cstate, effects, wsRef, wsSendTimer, lastSendRef,
                 suppressBroadcastRef, inflight, now, outbox, inboundCount,
                 openCount, lastFrame, lastCallAt>>

\* pushHistory in the handler of a discrete event (click, pointer up): React
\* has rendered the updates of the events before it
CommitRendered == queued = cstate /\ LocalEdit

\* handleMediaChange(file): start reading the file; reader.onload closes
\* over this render
PickMedia ==
  /\ cstate.activeBoardId # NoBoard
  /\ canEdit(cstate)
  /\ ~reader.active
  /\ editCount < budget.edits
  /\ reader' = [active |-> TRUE, data |-> cstate.boardData]
  /\ UNCHANGED <<brokerVars, presence, presenceList, editorVars, sessionVars, hist, budget, idleAtFirstEdit,
                 cstate, queued, effects, wsRef, wsSendTimer, lastSendRef,
                 suppressBroadcastRef, historyRef, redoRef, inflight, now,
                 outbox, editCount, inboundCount, openCount, lastFrame,
                 firstEditAt, lastCallAt>>

\* reader.onload: pushHistory of the render that started the read
ReaderLoaded ==
  /\ reader.active
  /\ reader' = NoReader
  /\ editCount' = editCount + 1
  /\ historyRef' = pushHistory(historyRef, redoRef, reader.data).history
  /\ redoRef' = pushHistory(historyRef, redoRef, reader.data).redo
  /\ queued' = setBoardData(queued, MediaData(editCount + 1), "local")
  /\ hist' = HistStep("commit", queued')
  /\ UNCHANGED <<brokerVars, presence, presenceList, editorVars, sessionVars, budget, idleAtFirstEdit,
                 cstate, effects, wsRef, wsSendTimer, lastSendRef,
                 suppressBroadcastRef, inflight, now, outbox, inboundCount,
                 openCount, lastFrame, firstEditAt, lastCallAt>>

\* the Undo and Redo buttons are rendered for an editor of the open board
HistoryButtons == cstate.activeBoardId # NoBoard /\ canEdit(cstate)

undo ==
  /\ HistoryButtons
  /\ hist.undos < budget.undos
  /\ IF historyRef = << >>
       THEN UNCHANGED <<historyRef, redoRef, queued>>
       ELSE /\ historyRef' = SubSeq(historyRef, 1, Len(historyRef) - 1)
            /\ redoRef' = Last(Append(redoRef, JSONstringifyData(cstate.boardData)), HistoryCap)
            /\ queued' = setBoardData(queued, JSONparseData(historyRef[Len(historyRef)]), "undo")
  /\ hist' = HistStep("undo", queued')
  /\ UNCHANGED <<brokerVars, uiVars, budget, idleAtFirstEdit, cstate, effects,
                 wsRef, wsSendTimer, lastSendRef, suppressBroadcastRef, inflight,
                 now, outbox, editCount, inboundCount, openCount, lastFrame,
                 firstEditAt, lastCallAt>>

redo ==
  /\ HistoryButtons
  /\ hist.redos < budget.redos
  /\ IF redoRef = << >>
       THEN UNCHANGED <<historyRef, redoRef, queued>>
       ELSE /\ redoRef' = SubSeq(redoRef, 1, Len(redoRef) - 1)
            /\ historyRef' = Last(Append(historyRef, JSONstringifyData(cstate.boardData)), HistoryCap)
            /\ queued' = setBoardData(queued, JSONparseData(redoRef[Len(redoRef)]), "redo")
  /\ hist' = HistStep("redo", queued')
  /\ UNCHANGED <<brokerVars, uiVars, budget, idleAtFirstEdit, cstate, effects,
                 wsRef, wsSendTimer, lastSendRef, suppressBroadcastRef, inflight,
                 now, outbox, editCount, inboundCount, openCount, lastFrame,
                 firstEditAt, lastCallAt>>

\* the clock advances
Tick ==
  /\ now + TickMs <= budget.maxTime
  /\ now' = now + TickMs
  /\ UNCHANGED <<brokerVars, uiVars, hist, budget, idleAtFirstEdit, cstate, queued, effects, wsRef, wsSendTimer, lastSendRef,
                 suppressBroadcastRef, historyRef, redoRef, inflight, outbox,
                 editCount, inboundCount, openCount, lastFrame, firstEditAt,
                 lastCallAt>>

\* ========================================================================
\* Canvas of the board view: hexagons, drag and snap, marquee, toolbar
\* ========================================================================
\* world points of the pointer events
Points == {[x |-> 0, y |-> 0], [x |-> 390, y |-> 0], [x |-> 800, y |-> 0],
           [x |-> 1500, y |-> 1000]}

\* world points on the row of the hexagons
RowPoints == {[x |-> px, y |-> 0] : px \in {0, 390, 800, 1500}}

\* time between two pointer events (ms)
DeltaTimes == {16, 2000}

\* the centre of the view, on the snapSize grid, where Add places a hexagon
AddPoints == {[x |-> 125, y |-> 1000]}

NewId(n) == IF n = 1 THEN "n1" ELSE IF n = 2 THEN "n2" ELSE "n3"

Ids(hs) == {hs[i].id : i \in DOMAIN hs}

\* the identifiers a hexagon can have
HexIds == {"h1", "h2", "h3", "n1", "n2", "n3"}

\* Array.findIndex, 0 when there is none
findIndex(hs, id) ==
  IF \E i \in DOMAIN hs : hs[i].id = id
    THEN CHOOSE i \in DOMAIN hs : hs[i].id = id /\ \A j \in 1..(i - 1) : hs[j].id # id
    ELSE 0

ConnectionsOf(hs, id) == hs[findIndex(hs, id)].connections

Abs(n) == IF n < 0 THEN -n ELSE n
Min(a, b) == IF a <= b THEN a ELSE b
Max(a, b) == IF a >= b THEN a ELSE b

\* Math.floor(Math.sqrt(n)) for n up to snapDistanceSquared
Isqrt(n) == CHOOSE r \in 0..(2 * hexRadius) : r * r <= n /\ n < (r + 1) * (r + 1)

BoardData(hs) == [hexagons |-> hs]

\* the variant that empties the list of the hexagon and leaves the others
clearConnectionsOwn(hs, id) ==
  [i \in DOMAIN hs |->
     IF hs[i].id = id THEN [hs[i] EXCEPT !.connections = {}] ELSE hs[i]]

clearConnectionsFor(hs, id) ==
  [i \in DOMAIN hs |->
     IF hs[i].id = id THEN [hs[i] EXCEPT !.connections = {}]
     ELSE IF id \in hs[i].connections
       THEN [hs[i] EXCEPT !.connections = @ \ {id}]
     ELSE hs[i]]

\* (cos(angle), sin(angle)) * snapDistance for angle = atan2(dy, dx): exact
\* on a row or a column, rounded towards the neighbour to the unit elsewhere
SnapOffset(dx, dy, snapDistance) ==
  IF dx = 0 /\ dy = 0 THEN [x |-> snapDistance, y |-> 0]
  ELSE LET d == Isqrt(dx * dx + dy * dy)
           part(v) == IF v >= 0 THEN (v * snapDistance) \div d
                      ELSE -((-v * snapDistance) \div d)
       IN [x |-> part(dx), y |-> part(dy)]

snapHexagonToNeighbors(hs, draggedId, snapDistance, snapDistanceSquared) ==
  LET draggedIndex == findIndex(hs, draggedId)
  IN IF draggedIndex = 0 THEN hs
     ELSE
       LET dragged == hs[draggedIndex]
           distSquared(i) == (dragged.x - hs[i].x) * (dragged.x - hs[i].x)
                             + (dragged.y - hs[i].y) * (dragged.y - hs[i].y)
           near == {i \in DOMAIN hs : /\ hs[i].id # draggedId
                                      /\ distSquared(i) <= snapDistanceSquared}
       IN IF near = {} THEN hs
          ELSE
            LET closestIndex ==
                  CHOOSE i \in near :
                    \A j \in near : \/ distSquared(i) < distSquared(j)
                                    \/ distSquared(i) = distSquared(j) /\ i <= j
                closest == hs[closestIndex]
                off == SnapOffset(dragged.x - closest.x, dragged.y - closest.y,
                                  snapDistance)
            IN [i \in DOMAIN hs |->
                  IF i = draggedIndex
                    THEN [dragged EXCEPT !.x = closest.x + off.x,
                                         !.y = closest.y + off.y,
                                         !.connections = @ \cup {closest.id}]
                  ELSE IF i = closestIndex
                    THEN [closest EXCEPT !.connections = @ \cup {dragged.id}]
                  ELSE hs[i]]

\* a traversal that stops at the neighbours of the start
ConnectedNeighbours(hs, set) ==
  set \cup UNION {hs[i].connections : i \in {j \in DOMAIN hs : hs[j].id \in set}}

\* handleHexPointerDown: the hexagons reachable from hexId over connections
RECURSIVE Connected(_, _)
Connected(hs, set) ==
  LET next == set \cup UNION {hs[i].connections : i \in {j \in DOMAIN hs : hs[j].id \in set}}
  IN IF next = set THEN set ELSE Connected(hs, next)

\* everything of the client but the canvas and the history stacks
restVars == <<sessionVars, presence, presenceList, reader, hist, cstate, queued, effects,
              wsRef, wsSendTimer, lastSendRef, suppressBroadcastRef, inflight,
              now, outbox, editCount, inboundCount, openCount, lastFrame,
              firstEditAt, idleAtFirstEdit, lastCallAt, budget>>

PointerIsUp == dragState = NoDrag /\ marqueeStart = Null /\ panState = Null /\ ~gest.down

\* the hexagons within snapDistance of the hexagon id
WithinSnap(hs, id) ==
  LET d == hs[findIndex(hs, id)]
  IN {i \in DOMAIN hs :
        /\ hs[i].id # id
        /\ (d.x - hs[i].x) * (d.x - hs[i].x) + (d.y - hs[i].y) * (d.y - hs[i].y)
             <= ((hexRadius * 2 * snapRatio) \div 100) * ((hexRadius * 2 * snapRatio) \div 100)}

\* handleHexPointerDown(event, hexId), pressed at the centre of the hexagon
HexPointerDown(hexId, shiftKey) ==
  /\ PointerIsUp
  /\ lastEd.gestures < budget.gestures
  /\ hexId \in Ids(hexagons)
  /\ LET hex == hexagons[findIndex(hexagons, hexId)]
         currentSelection ==
           IF shiftKey
             THEN IF hexId \in selectedIds THEN selectedIds \ {hexId}
                  ELSE selectedIds \cup {hexId}
             ELSE {hexId}
         dragIds == IF Cardinality(currentSelection) > 1 THEN currentSelection
                    ELSE Connected(hexagons, {hexId})
         startPositions ==
           [id \in dragIds \cap Ids(hexagons) |->
              [x |-> hexagons[findIndex(hexagons, id)].x,
               y |-> hexagons[findIndex(hexagons, id)].y]]
     IN IF ~canEdit(cstate)
          THEN /\ selectedIds' = {hexId}
               /\ UNCHANGED <<dragState, gest>>
          ELSE /\ selectedIds' = currentSelection
               /\ dragState' = [id |-> hexId, startX |-> hex.x, startY |-> hex.y,
                                startPositions |-> startPositions,
                                lastX |-> hex.x, lastY |-> hex.y, lastTime |-> 0,
                                startTime |-> 0, breakConnections |-> FALSE]
               /\ gest' = [NoGesture EXCEPT
                             !.kind = "drag", !.down = TRUE, !.id = hexId,
                             !.start = [x |-> hex.x, y |-> hex.y],
                             !.last = [x |-> hex.x, y |-> hex.y],
                             !.conns0 = [id \in Ids(hexagons) |-> ConnectionsOf(hexagons, id)],
                             !.atDown = hexagons, !.shift = shiftKey,
                             !.repeat = /\ lastEd.op = "up"
                                        /\ gest.kind = "drag"
                                        /\ gest.id = hexId
                                        /\ gest.within]
  /\ view' = [view EXCEPT !.lastSelectedId = hexId]
  /\ etime' = 0
  /\ lastEd' = [lastEd EXCEPT !.op = "hexdown", !.gestures = @ + 1]
  /\ UNCHANGED <<brokerVars, restVars, historyRef, redoRef, hexagons,
                 marqueeStart, marqueeRect, panState, newCount>>

\* event.target is the svg or its background rect: p is on no hexagon
OnBackground(p) ==
  \A i \in DOMAIN hexagons :
    (p.x - hexagons[i].x) * (p.x - hexagons[i].x)
      + (p.y - hexagons[i].y) * (p.y - hexagons[i].y) > hexRadius * hexRadius

\* handleCanvasPointerDown(event) on the background of the canvas
CanvasPointerDown(p, shiftKey) ==
  /\ PointerIsUp
  /\ lastEd.gestures < budget.gestures
  /\ OnBackground(p)
  /\ IF shiftKey
       THEN /\ marqueeStart' = p
            /\ marqueeRect' = [x |-> p.x, y |-> p.y, width |-> 0, height |-> 0]
            /\ selectedIds' = {}
            /\ UNCHANGED panState
       ELSE /\ panState' = [startX |-> p.x, startY |-> p.y, origin |-> view.pan]
            /\ UNCHANGED <<marqueeStart, marqueeRect, selectedIds>>
  /\ gest' = [NoGesture EXCEPT !.kind = IF shiftKey THEN "marquee" ELSE "pan",
                               !.down = TRUE, !.start = p, !.last = p]
  /\ etime' = 0
  /\ lastEd' = [lastEd EXCEPT !.op = "canvasdown", !.gestures = @ + 1]
  /\ UNCHANGED <<brokerVars, restVars, view, historyRef, redoRef, hexagons, dragState,
                 newCount>>

\* velocity = speed * 1000 > disconnectVelocityThreshold, for a move of
\* (dx, dy) units in deltaTime ms: 160 * hypot > threshold * deltaTime
VelocityExceeds(dx, dy, deltaTime) ==
  64 * (dx * dx + dy * dy)
    > ((disconnectVelocityThreshold \div 20) * deltaTime)
        * ((disconnectVelocityThreshold \div 20) * deltaTime)

\* handleCanvasPointerMove: the flick test
FlickDetachesNever(ds, p, t) == FALSE

\* a flick test that is not latched
FlickDetachesUnlatched(ds, p, t) ==
  /\ t - ds.startTime < FlickWindow
  /\ VelocityExceeds(p.x - ds.lastX, p.y - ds.lastY, Max(1, t - ds.lastTime))

FlickDetaches(ds, p, t) ==
  /\ ~ds.breakConnections
  /\ t - ds.startTime < FlickWindow
  /\ VelocityExceeds(p.x - ds.lastX, p.y - ds.lastY, Max(1, t - ds.lastTime))

\* handleCanvasPointerMoveMarquee: the hexagons inside nextRect
InsideExclusive(hs, nextRect) ==
  {hs[i].id : i \in {j \in DOMAIN hs :
     /\ hs[j].x > nextRect.x
     /\ hs[j].x < nextRect.x + nextRect.width
     /\ hs[j].y > nextRect.y
     /\ hs[j].y < nextRect.y + nextRect.height}}

Inside(hs, nextRect) ==
  {hs[i].id : i \in {j \in DOMAIN hs :
     /\ hs[j].x >= nextRect.x
     /\ hs[j].x <= nextRect.x + nextRect.width
     /\ hs[j].y >= nextRect.y
     /\ hs[j].y <= nextRect.y + nextRect.height}}

\* onPointerMove of the canvas: handleCanvasPointerMove, then
\* handleCanvasPointerMoveMarquee (the presence cursor is not part of the
\* board); the pan follows the pointer by its displacement since the press
PointerMove(p, dt) ==
  /\ gest.down
  /\ gest.moves < budget.moves
  /\ etime' = etime + dt
  /\ IF dragState = NoDrag
       THEN UNCHANGED <<hexagons, dragState>>
       ELSE IF FlickDetaches(dragState, p, etime')
         THEN /\ hexagons' = clearConnectionsFor(hexagons, dragState.id)
              /\ dragState' = [dragState EXCEPT
                                 !.startPositions = [id \in {dragState.id} |-> p],
                                 !.startX = p.x, !.startY = p.y,
                                 !.lastX = p.x, !.lastY = p.y,
                                 !.lastTime = etime',
                                 !.breakConnections = TRUE]
         ELSE /\ hexagons' =
                   [i \in DOMAIN hexagons |->
                      IF hexagons[i].id \in DOMAIN dragState.startPositions
                        THEN [hexagons[i] EXCEPT
                                !.x = dragState.startPositions[hexagons[i].id].x
                                        + (p.x - dragState.startX),
                                !.y = dragState.startPositions[hexagons[i].id].y
                                        + (p.y - dragState.startY)]
                        ELSE hexagons[i]]
              /\ dragState' = [dragState EXCEPT !.lastX = p.x, !.lastY = p.y,
                                                !.lastTime = etime']
  /\ IF panState # Null \/ marqueeStart = Null
       THEN UNCHANGED <<marqueeRect, selectedIds>>
       ELSE LET nextRect == [x |-> Min(marqueeStart.x, p.x),
                             y |-> Min(marqueeStart.y, p.y),
                             width |-> Abs(p.x - marqueeStart.x),
                             height |-> Abs(p.y - marqueeStart.y)]
            IN /\ marqueeRect' = nextRect
               /\ selectedIds' = Inside(hexagons, nextRect)
  /\ gest' = [gest EXCEPT
                !.moves = @ + 1, !.last = p, !.lastT = etime',
                !.fast = @ \/ /\ etime' < FlickWindow
                              /\ VelocityExceeds(p.x - gest.last.x, p.y - gest.last.y,
                                                 Max(1, dt)),
                !.slow = @ /\ ~VelocityExceeds(p.x - gest.last.x, p.y - gest.last.y,
                                               Max(1, dt)),
                !.sel = selectedIds']
  /\ view' = IF panState = Null THEN view
              ELSE [view EXCEPT
                      !.pan = [x |-> RatAdd(panState.origin.x, Rat(p.x - panState.startX, 1)),
                               y |-> RatAdd(panState.origin.y, Rat(p.y - panState.startY, 1))]]
  /\ lastEd' = [lastEd EXCEPT !.op = "move"]
  /\ UNCHANGED <<brokerVars, restVars, historyRef, redoRef, marqueeStart,
                 panState, newCount>>

\* handleCanvasPointerUp
PointerUp ==
  /\ gest.down
  /\ IF dragState # NoDrag /\ canEdit(cstate)
       THEN LET snapDistance == (hexRadius * 2 * snapRatio) \div 100
                nextHexagons ==
                  IF ~dragState.breakConnections
                    THEN snapHexagonToNeighbors(hexagons, dragState.id, snapDistance,
                                                snapDistance * snapDistance)
                    ELSE hexagons
            IN /\ historyRef' = pushHistory(historyRef, redoRef, BoardData(hexagons)).history
               /\ redoRef' = pushHistory(historyRef, redoRef, BoardData(hexagons)).redo
               /\ hexagons' = nextHexagons
       ELSE UNCHANGED <<historyRef, redoRef, hexagons>>
  /\ panState' = Null
  /\ dragState' = NoDrag
  /\ marqueeStart' = Null
  /\ marqueeRect' = Null
  /\ gest' = [gest EXCEPT
                !.down = FALSE, !.before = hexagons, !.sel = selectedIds,
                !.start = Origin, !.last = Origin, !.lastT = 0,
                !.within = /\ dragState # NoDrag
                           /\ ~dragState.breakConnections
                           /\ WithinSnap(hexagons, dragState.id) # {}]
  /\ etime' = 0
  /\ lastEd' = [lastEd EXCEPT !.op = "up"]
  /\ UNCHANGED <<brokerVars, restVars, view, selectedIds, newCount>>

ToolbarEnabled == PointerIsUp /\ lastEd.buttons < budget.buttons

\* handleDeleteSelected
DeleteSelected ==
  /\ ToolbarEnabled
  /\ canEdit(cstate)
  /\ selectedIds # {}
  /\ historyRef' = pushHistory(historyRef, redoRef, BoardData(hexagons)).history
  /\ redoRef' = pushHistory(historyRef, redoRef, BoardData(hexagons)).redo
  /\ hexagons' = LET kept == SelectSeq(hexagons, LAMBDA hex : hex.id \notin selectedIds)
                 IN [i \in DOMAIN kept |->
                       [kept[i] EXCEPT !.connections = @ \ selectedIds]]
  /\ selectedIds' = {}
  /\ gest' = NoGesture
  /\ lastEd' = [lastEd EXCEPT !.op = "delete", !.buttons = @ + 1]
  /\ UNCHANGED <<brokerVars, restVars, view, dragState, marqueeStart, marqueeRect,
                 panState, etime, newCount>>

\* selectedIds.forEach((id) => { next = clearConnectionsFor(next, id) })
RECURSIVE clearConnectionsForAll(_, _)
clearConnectionsForAll(hs, ids) ==
  IF ids = {} THEN hs
  ELSE LET id == CHOOSE x \in ids : TRUE
       IN clearConnectionsForAll(clearConnectionsFor(hs, id), ids \ {id})

\* handleDisconnectSelected
DisconnectSelected ==
  /\ ToolbarEnabled
  /\ canEdit(cstate)
  /\ selectedIds # {}
  /\ historyRef' = pushHistory(historyRef, redoRef, BoardData(hexagons)).history
  /\ redoRef' = pushHistory(historyRef, redoRef, BoardData(hexagons)).redo
  /\ hexagons' = clearConnectionsForAll(hexagons, selectedIds)
  /\ gest' = NoGesture
  /\ lastEd' = [lastEd EXCEPT !.op = "disconnect", !.buttons = @ + 1]
  /\ UNCHANGED <<brokerVars, restVars, view, selectedIds, dragState, marqueeStart,
                 marqueeRect, panState, etime, newCount>>

\* undo() from the toolbar, on the board the canvas shows
CanvasUndo ==
  /\ ToolbarEnabled
  /\ canEdit(cstate)
  /\ IF historyRef = << >>
       THEN UNCHANGED <<historyRef, redoRef, hexagons>>
       ELSE /\ historyRef' = SubSeq(historyRef, 1, Len(historyRef) - 1)
            /\ redoRef' = Last(Append(redoRef, JSONstringifyData(BoardData(hexagons))),
                               HistoryCap)
            /\ hexagons' = JSONparseData(historyRef[Len(historyRef)]).hexagons
  /\ gest' = NoGesture
  /\ lastEd' = [lastEd EXCEPT !.op = "undo", !.buttons = @ + 1]
  /\ UNCHANGED <<brokerVars, restVars, view, selectedIds, dragState, marqueeStart,
                 marqueeRect, panState, etime, newCount>>

\* handleDuplicateSelected
DuplicateSelected ==
  /\ ToolbarEnabled
  /\ canEdit(cstate)
  /\ selectedIds # {}
  /\ LET selected == SelectSeq(hexagons, LAMBDA hex : hex.id \in selectedIds)
         clones == [i \in DOMAIN selected |->
                      [selected[i] EXCEPT !.id = NewId(newCount + i),
                                          !.x = @ + DuplicateOffset,
                                          !.y = @ + DuplicateOffset,
                                          !.connections = {}]]
     IN /\ newCount + Len(selected) <= EdMaxNew + 1
        /\ historyRef' = pushHistory(historyRef, redoRef, BoardData(hexagons)).history
        /\ redoRef' = pushHistory(historyRef, redoRef, BoardData(hexagons)).redo
        /\ hexagons' = hexagons \o clones
        /\ selectedIds' = Ids(clones)
        /\ newCount' = newCount + Len(selected)
        /\ lastEd' = [lastEd EXCEPT
                        !.op = "duplicate", !.buttons = @ + 1,
                        !.assignedBefore = lastEd.assigned,
                        !.assigned = Max(@, MaxNumber(clones)),
                        !.created = Ids(clones)]
  /\ gest' = NoGesture
  /\ UNCHANGED <<brokerVars, restVars, view, dragState, marqueeStart, marqueeRect,
                 panState, etime>>

\* handleAddHexagon(1, color), the centre of the view being at p
AddHexagon(p) ==
  /\ ToolbarEnabled
  /\ canEdit(cstate)
  /\ newCount + 1 <= EdMaxNew + 1
  /\ historyRef' = pushHistory(historyRef, redoRef, BoardData(hexagons)).history
  /\ redoRef' = pushHistory(historyRef, redoRef, BoardData(hexagons)).redo
  /\ hexagons' = Append(hexagons, Hex(NewId(newCount + 1), MaxNumber(hexagons) + 1,
                                      p.x, p.y, {}))
  /\ selectedIds' = {NewId(newCount + 1)}
  /\ newCount' = newCount + 1
  /\ gest' = NoGesture
  /\ lastEd' = [lastEd EXCEPT
                  !.op = "add", !.buttons = @ + 1,
                  !.assignedBefore = lastEd.assigned,
                  !.assigned = Max(@, MaxNumber(hexagons) + 1),
                  !.created = {NewId(newCount + 1)}]
  /\ UNCHANGED <<brokerVars, restVars, view, dragState, marqueeStart, marqueeRect,
                 panState, etime>>

NextClient ==
  \/ \E id \in BoardIds : OpenBoard(id)
  \/ \E id \in BoardIds : BoardLoaded(id)
  \/ \E id \in BoardIds : LoadFailed(id)
  \/ \E id \in BoardIds : SharedLoaded(id)
  \/ Back
  \/ Render
  \/ FlushEffects
  \/ SocketOpened
  \/ SocketClosed
  \/ \E sdr \in Senders : Receive(sdr)
  \/ LocalEdit

vars == <<brokerVars, clientVars>>

Init == BrokerInit /\ ClientInit

NextBroker ==
  \/ \E c \in Conns, token \in Tokens, boardId \in ReqBoards : Connect(c, token, boardId)
  \/ \E c \in Conns : Authorize(c)
  \/ \E c \in Conns, frame \in Frames : HandleMessage(c, frame)
  \/ \E c \in Conns : PeerClose(c)

SpecBroker == Init /\ [][NextBroker]_vars

\* the broker with its scheduling: a pending `await getBoardForUser` resolves
\* (the close handler runs in the step of the close event itself)
SpecBrokerLive ==
  Init /\ [][NextBroker]_vars /\ \A c \in Conns : WF_vars(Authorize(c))

SpecClient == Init /\ [][NextClient]_vars

\* the broker while the owner of b1 changes the collaborators of the board
NextRevoke ==
  \/ \E c \in Conns, token \in {"tok_u1", "tok_u2", "tok_u3"} : ConnectEarlier(c, token)
  \/ \E c \in Conns : AuthorizeEarlier(c)
  \/ \E c \in Conns, frame \in BoardUpdateFrames : HandleMessage(c, frame)
  \/ \E c \in Conns : PeerClose(c)
  \/ \E userId \in {"u2", "u3"}, role \in {"editor", "viewer"} :
       UpsertCollaborator("b1", userId, role)
  \/ \E userId \in {"u2", "u3"} : DeleteCollaborator("b1", userId)

SpecRevoke == Init /\ [][NextRevoke]_vars

\* two editors of board b1 and the broker between them
NextRoom ==
  \/ \E p \in Peers : PeerConnect(p)
  \/ \E p \in Peers : Authorize(p)
  \/ \E p \in Peers : PeerEdit(p)
  \/ \E p \in Peers : PeerEffect(p)
  \/ \E p \in Peers : RoomRelay(p)
  \/ \E p \in Peers : PeerReceive(p)

SpecRoom == Init /\ [][NextRoom]_vars

\* every frame sent is relayed and handled, every effect runs
SpecRoomLive ==
  /\ SpecRoom
  /\ \A p \in Peers : /\ WF_vars(PeerEffect(p))
                       /\ WF_vars(RoomRelay(p))
                       /\ WF_vars(PeerReceive(p))

\* guests commenting on board b1 while its editors work on it
NextComments ==
  \/ \E p \in Peers : PeerConnect(p)
  \/ \E p \in Peers : Authorize(p)
  \/ \E p \in {"c1"} : PeerEdit(p)
  \/ \E p \in Peers : PeerEffect(p)
  \/ \E p \in Peers : RoomRelay(p)
  \/ \E p \in Peers : PeerReceive(p)
  \/ \E p \in {"c1"} : PeerSave(p)
  \/ \E r \in CommentReqs, token \in ShareTokens, bodyOk \in BOOLEAN :
       CommentRead(r, token, bodyOk)
  \/ \E r \in CommentReqs : CommentWrite(r)
  \/ \E r \in CommentReqs : CommentFinish(r)

SpecComments == Init /\ [][NextComments]_vars

NextThrottle ==
  \/ \E id \in BoardIds : OpenBoard(id)
  \/ \E id \in BoardIds : BoardLoaded(id)
  \/ Render
  \/ FlushEffects
  \/ TimerFire
  \/ SocketOpened
  \/ LocalEdit
  \/ Tick

InitThrottle == BrokerInit /\ ThrottleInit

SpecThrottle == InitThrottle /\ [][NextThrottle]_vars

NextHistory ==
  \/ Render
  \/ FlushEffects
  \/ Receive("peer")
  \/ LocalEdit
  \/ PickMedia
  \/ ReaderLoaded
  \/ undo
  \/ redo

InitHistory == BrokerInit /\ HistoryInit

SpecHistory == InitHistory /\ [][NextHistory]_vars

NextHistoryCap ==
  \/ Render
  \/ FlushEffects
  \/ CommitRendered
  \/ undo
  \/ redo

InitHistoryCap == BrokerInit /\ HistoryCapInit

SpecHistoryCap == InitHistoryCap /\ [][NextHistoryCap]_vars

\* the clock advances, at least until a scheduled trailing send is due
TickToTimer ==
  /\ \/ now + TickMs <= budget.maxTime
     \/ wsSendTimer.active /\ now < wsSendTimer.due
  /\ now' = now + TickMs
  /\ UNCHANGED <<brokerVars, uiVars, hist, budget, idleAtFirstEdit, cstate,
                 queued, effects, wsRef, wsSendTimer, lastSendRef,
                 suppressBroadcastRef, historyRef, redoRef, inflight, outbox,
                 editCount, inboundCount, openCount, lastFrame, firstEditAt,
                 lastCallAt>>

\* an editor on an open board: local changes, frames of a peer, the throttle
NextSync ==
  \/ Render
  \/ FlushEffects
  \/ TimerFire
  \/ Receive("peer")
  \/ LocalEdit
  \/ TickToTimer

InitSync == BrokerInit /\ SyncInit

SpecSync == InitSync /\ [][NextSync]_vars

\* React renders queued updates and runs the passive effects, timers fire
\* and the clock advances
SpecSyncLive ==
  /\ InitSync /\ [][NextSync]_vars
  /\ WF_vars(Render) /\ WF_vars(FlushEffects) /\ WF_vars(TimerFire)
  /\ WF_vars(TickToTimer)

\* a user who goes from one board to another through the board list
NextSwitch ==
  \/ \E id \in BoardIds : OpenBoard(id)
  \/ \E id \in BoardIds : BoardLoaded(id)
  \/ Back
  \/ Render
  \/ FlushEffects
  \/ SocketOpened
  \/ LocalEdit
  \/ TimerFire
  \/ TickToTimer

InitSwitch == BrokerInit /\ SwitchInit

SpecSwitch == InitSwitch /\ [][NextSwitch]_vars

NextEditor ==
  \/ \E hexId \in HexIds, shiftKey \in BOOLEAN : HexPointerDown(hexId, shiftKey)
  \/ \E p \in Points, shiftKey \in BOOLEAN : CanvasPointerDown(p, shiftKey)
  \/ \E p \in Points, dt \in DeltaTimes : PointerMove(p, dt)
  \/ PointerUp
  \/ DeleteSelected
  \/ DisconnectSelected
  \/ DuplicateSelected
  \/ \E p \in AddPoints : AddHexagon(p)

InitEditor == BrokerInit /\ EditorInit

SpecEditor == InitEditor /\ [][NextEditor]_vars

\* drags, structural edits from the toolbar and undo
NextDrag ==
  \/ \E hexId \in HexIds : HexPointerDown(hexId, FALSE)
  \/ \E p \in Points, dt \in DeltaTimes : PointerMove(p, dt)
  \/ PointerUp
  \/ DeleteSelected
  \/ DisconnectSelected
  \/ CanvasUndo

InitDrag == BrokerInit /\ DragInit

SpecDrag == InitDrag /\ [][NextDrag]_vars

\* the positions of the zoom slider that are tried: 0.2, 1 and 2
ZoomValues == {zoomMin, 40, 80}

\* the world point that setZoomWithCenter keeps: the hexagon lastSelectedId
\* where the board has it, the point under the centre of the canvas otherwise
ZoomAnchor(v, hs) ==
  IF v.lastSelectedId # "null" /\ v.lastSelectedId \in Ids(hs)
    THEN [x |-> Rat(hs[findIndex(hs, v.lastSelectedId)].x, 1),
          y |-> Rat(hs[findIndex(hs, v.lastSelectedId)].y, 1)]
    ELSE [x |-> RatScale(RatSub(CanvasCentre.x, v.pan.x), ZoomUnit, v.zoom),
          y |-> RatScale(RatSub(CanvasCentre.y, v.pan.y), ZoomUnit, v.zoom)]

\* setZoomWithCenter(nextZoom), the canvas being mounted
setZoomWithCenter(v, hs, nextZoom) ==
  LET world == ZoomAnchor(v, hs)
  IN [v EXCEPT
        !.zoom = nextZoom,
        !.pan = [x |-> RatSub(CanvasCentre.x, RatScale(world.x, nextZoom, ZoomUnit)),
                 y |-> RatSub(CanvasCentre.y, RatScale(world.y, nextZoom, ZoomUnit))]]

\* <g transform="translate(pan.x pan.y) scale(zoom)">: where the world
\* point w is drawn on the canvas
ScreenOf(v, w) ==
  [x |-> RatAdd(v.pan.x, RatScale(w.x, v.zoom, ZoomUnit)),
   y |-> RatAdd(v.pan.y, RatScale(w.y, v.zoom, ZoomUnit))]

\* onChange of the zoom slider
ZoomChange(nextZoom) ==
  /\ PointerIsUp
  /\ view.zooms < budget.zooms
  /\ nextZoom # view.zoom
  /\ view' = [setZoomWithCenter(view, hexagons, nextZoom) EXCEPT !.zooms = @ + 1]
  /\ gest' = NoGesture
  /\ lastEd' = [lastEd EXCEPT !.op = "zoom"]
  /\ UNCHANGED <<brokerVars, restVars, historyRef, redoRef, hexagons, selectedIds,
                 dragState, marqueeStart, marqueeRect, panState, etime, newCount>>

\* presses, pans and deletions between changes of the zoom
NextZoom ==
  \/ \E hexId \in HexIds : HexPointerDown(hexId, FALSE)
  \/ \E p \in Points : CanvasPointerDown(p, FALSE)
  \/ \E p \in Points : PointerMove(p, 2000)
  \/ PointerUp
  \/ DeleteSelected
  \/ \E nextZoom \in ZoomValues : ZoomChange(nextZoom)

InitZoom == BrokerInit /\ ZoomInit

SpecZoom == InitZoom /\ [][NextZoom]_vars

\* presses and releases on hexagons, with and without shift
NextPress ==
  \/ \E hexId \in HexIds, shiftKey \in BOOLEAN : HexPointerDown(hexId, shiftKey)
  \/ PointerUp

InitPress == BrokerInit /\ PressInit

SpecPress == InitPress /\ [][NextPress]_vars

\* drags with undo between them
NextRedrag ==
  \/ \E hexId \in HexIds : HexPointerDown(hexId, FALSE)
  \/ \E p \in Points, dt \in DeltaTimes : PointerMove(p, dt)
  \/ PointerUp
  \/ CanvasUndo

InitRedrag == BrokerInit /\ RedragInit

SpecRedrag == InitRedrag /\ [][NextRedrag]_vars

NextSnap ==
  \/ \E hexId \in HexIds : HexPointerDown(hexId, FALSE)
  \/ \E p \in RowPoints, dt \in DeltaTimes : PointerMove(p, dt)
  \/ PointerUp

InitSnap == BrokerInit /\ SnapInit

SpecSnap == InitSnap /\ [][NextSnap]_vars

NextPresence ==
  \/ \E id \in BoardIds : OpenBoard(id)
  \/ \E id \in BoardIds : BoardLoaded(id)
  \/ Render
  \/ FlushEffects
  \/ SocketOpened
  \/ SocketClosed
  \/ \E sdr \in Senders, cursor \in Cursors : ReceivePresence(sdr, cursor)
  \/ \E roster \in Rosters : ReceivePresenceState(roster)

InitPresence == BrokerInit /\ PresenceInit

SpecPresence == InitPresence /\ [][NextPresence]_vars

\* ------------------------------------------------------------------------
\* Properties of the room broker (SpecBroker)
\* ------------------------------------------------------------------------
RoomOf(c) == MapGet(rooms, reqBoard[c], {})

OtherOpenMembers(c) == {d \in RoomOf(c) \ {c} : readyState[d] = "OPEN"}

\* C1: a board_update received from a connection whose role is not owner or
\* editor makes the broker send nothing to any socket (neither to the other
\* members nor to the sender) and leaves the sender's connection open.
C1_NonEditorUpdateDropped ==
  (/\ lastOp.op = "message"
   /\ lastOp.frame.type = "board_update"
   /\ accessRole[lastOp.socket] \notin {"owner", "editor"})
  => /\ \A d \in Conns : sent[d] = << >>
     /\ readyState[lastOp.socket] = "OPEN"
     /\ closeCode[lastOp.socket] = 0

C1_Witness ==
  /\ lastOp.op = "message"
  /\ lastOp.frame.type = "board_update"
  /\ accessRole[lastOp.socket] = "viewer"
  /\ OtherOpenMembers(lastOp.socket) # {}

\* C2: a board_update from an owner/editor connection, and a presence message
\* from any connection, is sent exactly once to every other open member of
\* the sender's room, and to no other socket (in particular not the sender).
C2_RelayToEveryOtherMember ==
  (/\ lastOp.op = "message"
   /\ lastOp.frame.kind = "object"
   /\ \/ /\ lastOp.frame.type = "board_update"
         /\ accessRole[lastOp.socket] \in {"owner", "editor"}
      \/ lastOp.frame.type = "presence")
  => \A d \in Conns :
       IF d \in OtherOpenMembers(lastOp.socket)
         THEN /\ Len(sent[d]) = 1
              /\ sent[d][1].type = lastOp.frame.type
              /\ sent[d][1].data = lastOp.frame.data
              /\ sent[d][1].sender = lastOp.frame.sender
              /\ sent[d][1].cursor = lastOp.frame.cursor
              /\ sent[d][1].label = lastOp.frame.label
         ELSE sent[d] = << >>

C2_Witness ==
  /\ lastOp.op = "message"
  /\ lastOp.frame.type = "board_update"
  /\ accessRole[lastOp.socket] = "editor"
  /\ Cardinality(OtherOpenMembers(lastOp.socket)) = 2
  /\ \A d \in OtherOpenMembers(lastOp.socket) : Len(sent[d]) = 1
  /\ sent[lastOp.socket] = << >>

HasAccess(userId, boardId) ==
  /\ boardId \in BoardIds
  /\ \/ OwnerId[boardId] = userId
     \/ \E r \in Collaborators : r.boardId = boardId /\ r.userId = userId

\* the request of connection c is one that must be refused
RefusedRequest(c) ==
  \/ reqToken[c] = ""
  \/ reqBoard[c] = ""
  \/ reqToken[c] \in {"bad", "expired"}
  \/ \E u \in Users : reqToken[c] = "tok_" \o u /\ ~HasAccess(u, reqBoard[c])

InSomeRoom(c) == \E b \in DOMAIN rooms : c \in rooms[b]

InSomeRoster(c) ==
  \E b \in DOMAIN roomPresence :
    \E i \in 1..Len(roomPresence[b]) : roomPresence[b][i].id = c

\* C10: a connection attempt with a missing credential, a bad credential or
\* no access to the board is closed with the policy-violation code 1008 and
\* is never a member of a room or of a presence roster.
C10_RefusedWithPolicyViolation ==
  \A c \in Conns :
    (phase[c] # "new" /\ RefusedRequest(c))
    => /\ phase[c] = "done" => closeCode[c] = 1008
       /\ ~InSomeRoom(c)
       /\ ~InSomeRoster(c)

\* C11: a connection that is closed, at whichever point of its lifecycle, is
\* eventually absent from the room membership and from the presence roster.
C11_ClosedEventuallyAbsent ==
  \A c \in Conns :
    (readyState[c] = "CLOSED") ~> (~InSomeRoom(c) /\ ~InSomeRoster(c))

\* the label the broker gives the connection c
LabelOf(c) == ConnectLabel(jwtVerify(reqToken[c]).email)

\* the full roster of a room: one (connection id, label) pair per member
FullRoster(boardId) ==
  {[id |-> m, label |-> LabelOf(m)] : m \in MapGet(rooms, boardId, {})}

\* the last step made a connection join, or leave, its room
MembershipChanged ==
  \/ lastOp.op = "authorize" /\ phase[lastOp.socket] = "joined"
  \/ lastOp.op = "close" /\ phase[lastOp.socket] = "done"

\* C12: when a connection joins or leaves a room, every open member of the
\* room is sent one presence_state whose users are exactly the (connection
\* id, label) pairs of the current members of the room.
C12_FullRosterOnMembershipChange ==
  MembershipChanged =>
    LET boardId == reqBoard[lastOp.socket]
    IN \A d \in Conns :
         (d \in MapGet(rooms, boardId, {}) /\ readyState[d] = "OPEN")
         => /\ Len(sent[d]) = 1
            /\ sent[d][1].type = "presence_state"
            /\ sent[d][1].boardId = boardId
            /\ Len(sent[d][1].users) = Cardinality(FullRoster(boardId))
            /\ {sent[d][1].users[i] : i \in 1..Len(sent[d][1].users)}
                 = FullRoster(boardId)

\* a member left a room of three: the two remaining open members are told
C12_Witness ==
  /\ lastOp.op = "close"
  /\ phase[lastOp.socket] = "done"
  /\ Cardinality(OtherOpenMembers(lastOp.socket)) = 2
  /\ \A d \in OtherOpenMembers(lastOp.socket) :
       Len(sent[d]) = 1 /\ Len(sent[d][1].users) = 2

\* C22: an inbound message that cannot be decoded, or that decodes to a value
\* with no recognised type, is dropped: nothing is sent to any member, room
\* membership and presence are unchanged, and the sender's connection stays
\* open and still relays the valid message it sends next.
C22_MalformedDropped ==
  /\ []((lastOp.op = "message" /\ Unrecognised(lastOp.frame))
          => /\ \A d \in Conns : sent[d] = << >>
             /\ readyState[lastOp.socket] = "OPEN"
             /\ closeCode[lastOp.socket] = 0)
  /\ []((/\ lastOp.op = "message"
         /\ lastOp.after = lastOp.socket
         /\ \/ /\ lastOp.frame.type = "board_update"
               /\ accessRole[lastOp.socket] \in {"owner", "editor"}
            \/ lastOp.frame.type = "presence")
          => \A d \in OtherOpenMembers(lastOp.socket) :
               Len(sent[d]) = 1 /\ sent[d][1].type = lastOp.frame.type)
  /\ [][(lastOp'.op = "message" /\ Unrecognised(lastOp'.frame))
          => UNCHANGED <<rooms, roomPresence, readyState, closeCode, phase,
                         accessRole>>]_vars

\* an editor's undecodable frame was dropped, and its next frame, a
\* board_update, is relayed to the other members of the room
C22_Witness ==
  /\ lastOp.op = "message"
  /\ lastOp.after = lastOp.socket
  /\ lastOp.frame.type = "board_update"
  /\ accessRole[lastOp.socket] = "editor"
  /\ OtherOpenMembers(lastOp.socket) # {}
  /\ \A d \in OtherOpenMembers(lastOp.socket) : Len(sent[d]) = 1

\* C28: whenever the broker relays a board_update, its sender holds the owner
\* or editor role on that board in the persistent store at that moment: the
\* frames of a connection opened by a collaborator who has since been
\* removed or made a viewer are not relayed.
C28_RelayOnlyForCurrentEditors ==
  (/\ lastOp.op = "message"
   /\ lastOp.frame.type = "board_update"
   /\ \E d \in Conns : sent[d] # << >>)
  => StoreRole(collabs, reqBoard[lastOp.socket], UserOf(lastOp.socket))
       \in {"owner", "editor"}

\* C31: a message received from a connection that joined the room of one
\* board is never delivered to a connection in the room of a different board,
\* whatever boardId the body of the message carries.
C31_NoCrossRoomDelivery ==
  lastOp.op = "message" =>
    \A d \in Conns :
      sent[d] # << >> =>
        /\ d \in RoomOf(lastOp.socket)
        /\ \A b \in DOMAIN rooms : b # reqBoard[lastOp.socket] => d \notin rooms[b]
        /\ \A i \in 1..Len(sent[d]) : sent[d][i].boardId = reqBoard[lastOp.socket]

\* a member of one room sends a board_update that names a different board
\* with members of its own: its room receives it, the other room does not
C31_Witness ==
  /\ lastOp.op = "message"
  /\ lastOp.frame.type = "board_update"
  /\ lastOp.frame.boardId # reqBoard[lastOp.socket]
  /\ \E d \in OtherOpenMembers(lastOp.socket) : sent[d] # << >>
  /\ \E e \in MapGet(rooms, lastOp.frame.boardId, {}) :
       readyState[e] = "OPEN" /\ sent[e] = << >>

\* the connections that have joined the room of a board and not left it
Members(boardId) == {c \in Conns : phase[c] = "joined" /\ reqBoard[c] = boardId}

RosterIds(boardId) ==
  {roomPresence[boardId][i].id : i \in 1..Len(roomPresence[boardId])}

\* C32: the room registry is consistent in every reachable state: a board has
\* an entry in the room map exactly when at least one connection is a member
\* of its room, and the presence roster of a board has exactly one entry per
\* member connection of its room.
C32_RegistryConsistent ==
  /\ \A b \in ReqBoards : b \in DOMAIN rooms <=> Members(b) # {}
  /\ \A b \in DOMAIN rooms : rooms[b] = Members(b)
  /\ DOMAIN roomPresence = DOMAIN rooms
  /\ \A b \in DOMAIN roomPresence :
       /\ RosterIds(b) = rooms[b]
       /\ Len(roomPresence[b]) = Cardinality(rooms[b])

\* a room that was created, filled with two members and emptied again
C32_Witness ==
  /\ lastOp.op = "close"
  /\ phase[lastOp.socket] = "done"
  /\ reqBoard[lastOp.socket] \notin DOMAIN rooms
  /\ \E c \in Conns \ {lastOp.socket} :
       /\ phase[c] = "done"
       /\ reqBoard[c] = reqBoard[lastOp.socket]
       /\ accessRole[c] # "none"
  /\ \E b \in DOMAIN rooms : Cardinality(rooms[b]) = 1

\* ------------------------------------------------------------------------
\* Properties of a room with two editors and of guest comments
\* ------------------------------------------------------------------------
\* C23: eventual convergence: with two editors in the room, every frame
\* delivered and no further local change, all clients of the room end up
\* holding the same board state, also when two editors broadcast different
\* states concurrently.
C23_EventualConvergence ==
  <>[](\A p, q \in Peers : peers[p].boardData = peers[q].boardData)

\* the handler of comment request r writes the board
CommentWrites(r) == creq[r].phase = "read" /\ creq'[r].phase = "written"

\* client p handles a board_update that a comment request has broadcast
ReceivesComment(p) ==
  /\ down[p] # << >>
  /\ down'[p] = Tail(down[p])
  /\ Head(down[p]).sender = "share:sh_comment"

\* C26: a guest comment changes only the comments list: the hexagons of the
\* persisted board and of every connected client are the same after the
\* comment is applied as immediately before, so a comment never reverts
\* unsaved changes to the last persisted version.
C26_CommentChangesOnlyComments ==
  [][/\ \A r \in CommentReqs :
          CommentWrites(r) => row'.hexagons = row.hexagons
     /\ \A p \in Peers :
          ReceivesComment(p) =>
            peers'[p].boardData.hexagons = peers[p].boardData.hexagons]_vars

Persisted(r) == \E i \in DOMAIN row.comments : row.comments[i] = r

\* C27: guest comments are never lost under concurrency: when two comment
\* requests for the same board have both returned success, whatever the
\* interleaving of their read and write steps, the persisted comments list
\* contains both comments.
C27_NoLostComments ==
  (\A r \in CommentReqs : creq[r].status = 201)
    => \A r \in CommentReqs : Persisted(r)

\* ------------------------------------------------------------------------
\* Properties of the sync client (SpecClient)
\* ------------------------------------------------------------------------
\* the step handled an inbound board_update frame
Received == inboundCount' = inboundCount + 1 /\ lastFrame'.type = "board_update"

\* C3: an inbound board_update whose sender is the client's own id changes
\* neither the board state (rendered or queued), nor the undo and redo
\* stacks, nor the suppression flag.
C3_OwnEchoIgnored ==
  [][(Received /\ lastFrame'.sender = clientId)
     => UNCHANGED <<cstate, queued, historyRef, redoRef, suppressBroadcastRef>>]_vars

C3_Witness ==
  /\ inboundCount > 0
  /\ lastFrame.type = "board_update"
  /\ lastFrame.sender = clientId
  /\ outbox # << >>
  /\ historyRef # << >>
  /\ ~suppressBroadcastRef

\* C4: the client never sends a board_update whose data is a state it
\* received from a peer (applying a remote update triggers no send).
C4_RemoteStateNeverSent ==
  \A i \in 1..Len(outbox) : outbox[i].cause # "remote"

\* C5: applying a board_update received from a peer makes the received data
\* the client's board state and leaves the undo stack and the redo stack as
\* they were.
C5_RemoteApplyKeepsHistory ==
  [][(Received /\ lastFrame'.sender # clientId)
     => /\ queued'.boardData = lastFrame'.data
        /\ UNCHANGED <<historyRef, redoRef>>]_vars

C5_Witness ==
  /\ lastFrame.type = "board_update"
  /\ lastFrame.sender # clientId
  /\ cstate.boardData = lastFrame.data
  /\ historyRef # << >>

\* C9: every board_update the client sends goes to a board on which its
\* access is owner or editor, and never from a shared (view / comment) link.
C9_ReadOnlyNeverSends ==
  \A i \in 1..Len(outbox) :
    /\ BoardAccessRole[outbox[i].sock] \in {"owner", "editor"}
    /\ ~outbox[i].shared

\* ------------------------------------------------------------------------
\* Properties of the outbound throttle (SpecThrottle)
\* ------------------------------------------------------------------------
LocalFrames == SelectSeq(outbox, LAMBDA f : f.cause = "local")

\* five local changes were made, starting from an idle connected editor, the
\* broadcast check of each ran less than MinInterval after the first change,
\* and everything scheduled has been rendered, run and sent
FiveChangesInOneWindow ==
  /\ editCount = 5
  /\ idleAtFirstEdit
  /\ canEdit(cstate)
  /\ lastCallAt - firstEditAt < MinInterval
  /\ queued = cstate
  /\ ~effects.ws /\ ~effects.bcast
  /\ ~wsSendTimer.active
  /\ cstate.boardData = LocalData(5)

\* C6 as stated: the five changes produce exactly one board_update, which
\* carries the fifth state.
C6_ExactlyOneSend ==
  FiveChangesInOneWindow
  => /\ Len(LocalFrames) = 1
     /\ LocalFrames[1].data = LocalData(5)

\* C6 amended: the five changes produce one or two board_update messages,
\* the first within the window (the leading send), a second one not before
\* MinInterval after the first, and the last one carries the fifth state.
C6_LeadingAndTrailingSend ==
  FiveChangesInOneWindow
  => /\ Len(LocalFrames) \in {1, 2}
     /\ LocalFrames[Len(LocalFrames)].data = LocalData(5)
     /\ LocalFrames[1].at - firstEditAt < MinInterval
     /\ Len(LocalFrames) = 2 => LocalFrames[2].at - LocalFrames[1].at >= MinInterval

C6_Witness ==
  /\ FiveChangesInOneWindow
  /\ Len(LocalFrames) = 2
  /\ LocalFrames[1].data = LocalData(1)
  /\ LocalFrames[2].data = LocalData(5)

\* C7: the client never sends an older state after a newer one: the frames
\* it sends carry states in the order in which the states were produced.
C7_NeverOlderAfterNewer ==
  \A i, j \in 1..Len(outbox) : i < j => outbox[i].seq <= outbox[j].seq

\* C8: two consecutive board_update sends of the client are at least
\* MinInterval apart.
C8_SendsAtLeastMinIntervalApart ==
  \A i \in 1..(Len(outbox) - 1) : outbox[i + 1].at - outbox[i].at >= MinInterval
\* ------------------------------------------------------------------------
\* Properties of presence (SpecPresence)
\* ------------------------------------------------------------------------
\* C13: once the roster no longer lists a peer's connection (the peer's
\* connection closed), the client holds no presence entry (cursor, label) of
\* that peer.
C13_ClosedPeerHasNoPresenceEntry ==
  \A sdr \in DOMAIN presence : InRoster(ConnectionOf[sdr])
\* ------------------------------------------------------------------------
\* Properties of the history stacks (SpecHistory)
\* ------------------------------------------------------------------------
\* C14: undo() directly after a commit leaves the board state that was
\* current (and rendered) just before that commit; redo() directly after an
\* undo() leaves the state that undo() found.
C14_UndoRestoresPreCommitState ==
  /\ (hist.op = "undo" /\ hist.imm /\ hist.prevOp = "commit" /\ hist.prevSettled)
     => hist.post = hist.prevPre
  /\ (hist.op = "redo" /\ hist.imm /\ hist.prevOp = "undo" /\ hist.prevSettled)
     => hist.post = hist.prevPre
\* the step is a commit, an undo() or a redo()
HistOp(op) == hist'.n # hist.n /\ hist'.op = op

\* C15: every commit leaves the redo stack empty, and a redo() that directly
\* follows a commit changes neither the board state nor the two stacks.
C15_CommitClearsRedo ==
  [][/\ HistOp("commit") => redoRef' = << >>
     /\ (HistOp("redo") /\ hist.op = "commit")
        => UNCHANGED <<queued, cstate, historyRef, redoRef>>]_vars

\* a commit made after an effective undo(), then redo()
C15_Witness ==
  /\ hist.op = "redo"
  /\ hist.prevOp = "commit"
  /\ hist.undos = 1
  /\ hist.n = 4
  /\ historyRef # << >>
  /\ hist.post = hist.pre

\* C16: the undo stack and the redo stack never hold more than HistoryCap
\* entries, and a commit onto a full undo stack drops the oldest entry and
\* appends the new one after the others, kept in order.
C16_StacksCapped ==
  /\ [](Len(historyRef) <= HistoryCap /\ Len(redoRef) <= HistoryCap)
  /\ [][(HistOp("commit") /\ Len(historyRef) = HistoryCap)
        => historyRef' = Append(Tail(historyRef),
                                JSONstringifyData(cstate.boardData))]_vars

\* the commit after HistoryCap commits: the stack is full and has dropped
\* the entry of the first commit
C16_Witness ==
  /\ hist.op = "commit"
  /\ editCount = HistoryCap + 1
  /\ Len(historyRef) = HistoryCap
  /\ historyRef[1] = JSONstringifyData(LocalData(1))
  /\ historyRef[HistoryCap] = JSONstringifyData(LocalData(HistoryCap))

\* ------------------------------------------------------------------------
\* Canvas claims
\* ------------------------------------------------------------------------
Symmetric(hs) ==
  \A i, j \in DOMAIN hs :
    hs[j].id \in hs[i].connections <=> hs[i].id \in hs[j].connections

\* C17: starting from a board with symmetric connections, in every board
\* state reached through snaps on release, flick-detaches, disconnects,
\* deletes, duplicates and adds, for all hexagons A and B of the board B.id
\* is in A.connections exactly when A.id is in B.connections.
C17_ConnectionsSymmetric == Symmetric(hexagons)

\* a release has snapped a hexagon to a neighbour, after a toolbar operation
C17_Witness ==
  /\ lastEd.op = "up"
  /\ gest.kind = "drag"
  /\ gest.within
  /\ lastEd.buttons > 0
  /\ ConnectionsOf(hexagons, gest.id) # ConnectionsOf(gest.before, gest.id)

DistSquared(a, b) == (a.x - b.x) * (a.x - b.x) + (a.y - b.y) * (a.y - b.y)

\* the hexagons within snapDistance of the hexagon id that are nearest to it
NearestWithinSnap(hs, id) ==
  {i \in WithinSnap(hs, id) :
     \A j \in WithinSnap(hs, id) :
       DistSquared(hs[findIndex(hs, id)], hs[i]) <= DistSquared(hs[findIndex(hs, id)], hs[j])}

\* after the release the dragged hexagon and a nearest neighbour list each
\* other, and the dragged hexagon is at snapDistance from the neighbour on
\* the ray from the neighbour through the place of the release
SnapConnectsAtDistance ==
  (lastEd.op = "up" /\ gest.kind = "drag" /\ gest.within) =>
    \E n \in NearestWithinSnap(gest.before, gest.id) :
      LET old == gest.before[findIndex(gest.before, gest.id)]
          nb == gest.before[n]
          d == hexagons[findIndex(hexagons, gest.id)]
          snapDistance == (hexRadius * 2 * snapRatio) \div 100
      IN /\ nb.id \in d.connections
         /\ gest.id \in ConnectionsOf(hexagons, nb.id)
         /\ DistSquared(d, nb) = snapDistance * snapDistance
         /\ (old.x - nb.x) * (d.y - nb.y) = (old.y - nb.y) * (d.x - nb.x)
         /\ (old.x - nb.x) * (d.x - nb.x) + (old.y - nb.y) * (d.y - nb.y) >= 0

\* a press and a release of the snapped hexagon with no movement in between
\* leaves the hexagons as they were
SnapIdempotent ==
  (lastEd.op = "up" /\ gest.kind = "drag" /\ gest.repeat /\ gest.moves = 0) =>
    hexagons = gest.before

\* C18: when a drag that did not flick-detach is released while another
\* hexagon is within snapDistance of the dragged one, the dragged hexagon and
\* the nearest such hexagon list each other, the dragged hexagon is exactly
\* snapDistance from that neighbour on the line between the centres, and
\* releasing again with no further movement changes neither positions nor
\* connections.
C18_SnapOnReleaseIdempotent == SnapConnectsAtDistance /\ SnapIdempotent

\* no hexagon has lost a connection it had when the drag started
NoConnectionRemoved ==
  \A id \in DOMAIN gest.conns0 :
    /\ id \in Ids(hexagons)
    /\ gest.conns0[id] \subseteq ConnectionsOf(hexagons, id)

InRectangle(hs, a, b) ==
  {hs[i].id : i \in {j \in DOMAIN hs :
     /\ Min(a.x, b.x) <= hs[j].x /\ hs[j].x <= Max(a.x, b.x)
     /\ Min(a.y, b.y) <= hs[j].y /\ hs[j].y <= Max(a.y, b.y)}}

\* C20: at every pointer move of a marquee drag the selection is exactly
\* the set of hexagons whose centre is inside the rectangle spanned by the
\* marquee start point and the current pointer, bounds included; on release
\* the selection is kept and the marquee rectangle is discarded.
C20_MarqueeSelection ==
  /\ (gest.kind = "marquee" /\ lastEd.op = "move") =>
        selectedIds = InRectangle(hexagons, gest.start, gest.last)
  /\ (gest.kind = "marquee" /\ lastEd.op = "up") =>
        selectedIds = gest.sel /\ marqueeRect = Null

\* a marquee has been released with a hexagon on its border selected
C20_Witness ==
  /\ gest.kind = "marquee"
  /\ lastEd.op = "up"
  /\ gest.moves > 0
  /\ selectedIds = {"h3"}
  /\ marqueeRect = Null

\* C21: within a board, across any sequence of add, duplicate and delete
\* operations, no two hexagons present at the same time carry the same
\* number, and every newly created hexagon gets a number greater than every
\* number assigned in that board before (those of deleted hexagons included).
C21_NumbersNeverReused ==
  /\ \A i, j \in DOMAIN hexagons :
       i # j => hexagons[i].number # hexagons[j].number
  /\ lastEd.op \in {"add", "duplicate"} =>
       \A i \in DOMAIN hexagons :
         hexagons[i].id \in lastEd.created =>
           hexagons[i].number > lastEd.assignedBefore

\* ------------------------------------------------------------------------
\* Properties of board synchronisation over a session
\* ------------------------------------------------------------------------
\* C25: a client that opens a board and makes no local edit sends no
\* board_update: loading the persisted board into the local state never
\* broadcasts the persisted snapshot to the room.
C25_LoadNeverBroadcast ==
  /\ \A i \in 1..Len(outbox) : outbox[i].cause # "load"
  /\ (editCount = 0 /\ inboundCount = 0) => outbox = << >>

\* the step sent a board_update
Sends == Len(outbox') = Len(outbox) + 1

\* C24: whenever the client sends a board_update, the data it carries is the
\* client's current board state at that moment (the rendered one, or the one
\* queued for rendering): after a remote update has been applied, no pending
\* trailing send delivers a state held before that update.
C24_SendsCurrentState ==
  [][Sends => outbox'[Len(outbox')].data \in {cstate.boardData, queued.boardData}]_vars

\* the state of the n-th local change has been sent
SentLocal(n) == \E i \in 1..Len(outbox) : outbox[i].data = LocalData(n)

\* C30: while the editor's connection stays open, after the editor's last
\* local state change a board_update carrying that final local state is
\* eventually sent, whatever the interleaving of local changes and inbound
\* remote updates: a local change whose state stays the client's board state
\* is followed by a later local change or by the send of its state.
C30_LastLocalChangeSent ==
  \A n \in 1..(SyncMaxEdits + 1) :
    (editCount = n /\ queued.boardData = LocalData(n))
      ~> (editCount > n \/ SentLocal(n) \/ queued.boardData # LocalData(n))

\* C29: every board_update the client sends over the connection of board B
\* carries a state of board B: neither a trailing send scheduled while
\* another board was open, nor the state of another board still held while
\* B is loading, is sent on B's connection.
C29_FrameOfOpenBoard ==
  \A i \in 1..Len(outbox) :
    /\ outbox[i].boardId = outbox[i].sock
    /\ outbox[i].dataOf = outbox[i].sock

\* ------------------------------------------------------------------------
\* Properties of drags with undo (SpecDrag)
\* ------------------------------------------------------------------------
\* the last gesture was a drag, and it is complete
DragCompleted == lastEd.op = "up" /\ gest.kind = "drag"

\* C33: after a completed drag, with or without flick-detach, a single undo
\* restores the board to the state it had at pointer-down of that drag:
\* every hexagon is back at its position and has its connections of then.
C33_UndoRestoresPreDrag ==
  [][(DragCompleted /\ lastEd'.op = "undo") => hexagons' = gest.atDown]_vars

\* the step completes a structural edit: the release of a drag, Disconnect
\* or Delete
StructuralEdit ==
  \/ lastEd'.op \in {"disconnect", "delete"}
  \/ lastEd'.op = "up" /\ dragState # NoDrag

\* C34: asymmetry is repaired: when the board holds a connection that only
\* one of its two hexagons lists, the board's connections are symmetric
\* after the next completed structural edit (drag release, disconnect or
\* delete).
C34_AsymmetryRepaired ==
  [][(~Symmetric(hexagons) /\ StructuralEdit) => Symmetric(hexagons')]_vars

\* the step is a pointer move, or the release, of a drag whose flick-detach
\* has fired
LatchedMove ==
  dragState # NoDrag /\ dragState.breakConnections /\ lastEd'.op = "move"

LatchedRelease ==
  dragState # NoDrag /\ dragState.breakConnections /\ lastEd'.op = "up"

C38_OneEntryPerDrag ==
  [][/\ lastEd'.op = "hexdown" =>
          historyRef' = historyRef /\ redoRef' = redoRef
     /\ (dragState # NoDrag /\ lastEd'.op = "move") =>
          historyRef' = historyRef /\ redoRef' = redoRef
     /\ (dragState # NoDrag /\ canEdit(cstate) /\ lastEd'.op = "up") =>
          /\ Len(historyRef') = Min(Len(historyRef) + 1, HistoryCap)
          /\ Len(historyRef) < HistoryCap =>
               SubSeq(historyRef', 1, Len(historyRef)) = historyRef]_vars

\* the move that flick-detaches, in a drag started after an undo: the board
\* has changed, the redo stack still holds its entry, the undo stack is empty
C38_Witness ==
  /\ lastEd.op = "move"
  /\ dragState # NoDrag
  /\ dragState.breakConnections
  /\ hexagons # gest.atDown
  /\ redoRef # << >>
  /\ historyRef = << >>

\* ------------------------------------------------------------------------
\* Properties of the pointer-down on a hexagon (SpecPress)
\* ------------------------------------------------------------------------
\* the step is a pointer-down on a hexagon
Pressed == lastEd'.op = "hexdown" /\ dragState' # NoDrag

DragSet == DOMAIN dragState'.startPositions

\* C35: a plain pointer-down on a hexagon that is a member of a selection of
\* more than one hexagon keeps the selection, and the whole selection becomes
\* the drag set; a plain pointer-down on any other hexagon makes the
\* selection exactly that hexagon; a shift pointer-down toggles the
\* membership of that hexagon in the selection.
C35_SelectionOnPointerDown ==
  [][Pressed =>
       LET hexId == dragState'.id
       IN IF gest'.shift
            THEN selectedIds' = IF hexId \in selectedIds THEN selectedIds \ {hexId}
                                ELSE selectedIds \cup {hexId}
          ELSE IF hexId \in selectedIds /\ Cardinality(selectedIds) > 1
            THEN selectedIds' = selectedIds /\ DragSet = selectedIds
          ELSE selectedIds' = {hexId}]_vars

\* the hexagons of the board at most k connections away from the hexagon id
RECURSIVE ReachIn(_, _, _)
ReachIn(hs, id, k) ==
  IF k = 0 THEN {id}
  ELSE LET prev == ReachIn(hs, id, k - 1)
       IN prev \cup {b \in Ids(hs) : \E a \in prev : b \in ConnectionsOf(hs, a)}

\* C36: at pointer-down, when the resulting selection has more than one
\* member the drag set is that selection; otherwise it is exactly the set of
\* hexagons reachable from the pressed hexagon through connections, on every
\* connection graph, cyclic ones and ones with dangling ids included.
C36_DragSet ==
  [][Pressed =>
       DragSet = IF Cardinality(selectedIds') > 1 THEN selectedIds'
                 ELSE ReachIn(hexagons, dragState'.id, Len(hexagons))]_vars

\* a plain press on the end of a chain of three whose other end lists a
\* hexagon that is not on the board: the whole chain is the drag set
C36_Witness ==
  /\ lastEd.op = "hexdown"
  /\ ~gest.shift
  /\ selectedIds = {"h1"}
  /\ "h2" \notin ConnectionsOf(hexagons, "h1")
  /\ \E i \in DOMAIN hexagons : hexagons[i].connections \ Ids(hexagons) # {}
  /\ DOMAIN dragState.startPositions = {"h1", "h2", "h3"}

\* ========================================================================
\* Zoom of the canvas
\* ========================================================================
\* C39: after a zoom change through the anchored zoom, the anchor point (the
\* last-selected hexagon where there is one, the world point under the
\* centre of the canvas otherwise) is drawn at the screen position where it
\* was drawn before the change
C39_AnchorKeepsScreenPosition ==
  [][lastEd'.op = "zoom" /\ view'.zooms # view.zooms
       => ScreenOf(view', ZoomAnchor(view, hexagons))
            = ScreenOf(view, ZoomAnchor(view, hexagons))]_vars

\* the same with no hexagon to anchor on: the point under the centre of the
\* canvas stays under it
CentreAnchorStays ==
  [][(lastEd'.op = "zoom" /\ view'.zooms # view.zooms
        /\ ~(view.lastSelectedId \in Ids(hexagons)))
       => ScreenOf(view', ZoomAnchor(view, hexagons))
            = ScreenOf(view, ZoomAnchor(view, hexagons))]_vars

====
